---- MODULE Spec2Model ----
(***************************************************************************)
(* A model of mimclib's adaptive Multi-Index Monte Carlo estimator         *)
(* (src/mimclib/mimc.py): the moment engine, the sample allocator          *)
(* _calcTheoryM, the per-iteration data MIMCItrData and the control loop   *)
(* MIMCRun.doRun.                                                          *)
(*                                                                         *)
(* Floating point values are modelled as extended rationals <<n, d>>:      *)
(* d > 0 is the rational n/d in lowest terms, <<1, 0>> is +inf,            *)
(* <<-1, 0>> is -inf and <<0, 0>> is NaN.  Square roots are exact and are  *)
(* only taken of perfect squares: the inputs of every specification are    *)
(* chosen so that this holds, and TLC stops with an error otherwise.       *)
(***************************************************************************)
EXTENDS Integers, Sequences, FiniteSets, TLC

VARIABLES tm, itr, run, fn

vars == <<tm, itr, run, fn>>

(***************************************************************************)
(* Extended rational arithmetic (numpy float64 semantics for nan and inf). *)
(***************************************************************************)
Abs(x) == IF x < 0 THEN -x ELSE x

Sgn(x) == IF x > 0 THEN 1 ELSE IF x < 0 THEN -1 ELSE 0

RECURSIVE Gcd(_, _)
Gcd(a, b) == IF b = 0 THEN a ELSE Gcd(b, a % b)

Q(n, d) ==
    IF d = 0 THEN <<Sgn(n), 0>>
    ELSE LET g == Gcd(Abs(n), Abs(d))
         IN  <<(Sgn(d) * n) \div g, Abs(d) \div g>>

QI(n) == <<n, 1>>

NaN == <<0, 0>>

Inf == <<1, 0>>

Zero == <<0, 1>>

One == <<1, 1>>

IsNaN(a) == a = NaN

IsFinite(a) == a[2] # 0

QNeg(a) == <<-a[1], a[2]>>

QAdd(a, b) ==
    IF a[2] = 0 \/ b[2] = 0
    THEN IF IsNaN(a) \/ IsNaN(b) THEN NaN
         ELSE IF a[2] = 0 /\ b[2] = 0 THEN (IF a = b THEN a ELSE NaN)
         ELSE IF a[2] = 0 THEN a ELSE b
    ELSE LET g == Gcd(a[2], b[2])
         IN  Q(a[1] * (b[2] \div g) + b[1] * (a[2] \div g), a[2] * (b[2] \div g))

QSub(a, b) == QAdd(a, QNeg(b))

\* inf * 0 and nan * x are nan: <<n, 0>> * <<0, d>> = <<0, 0>>.
QMul(a, b) ==
    IF a[2] = 0 \/ b[2] = 0 THEN Q(a[1] * b[1], 0)
    ELSE LET g == Gcd(Abs(a[1]), b[2])
             h == Gcd(Abs(b[1]), a[2])
         IN  <<(a[1] \div g) * (b[1] \div h), (a[2] \div h) * (b[2] \div g)>>

\* 1/0 = inf, 1/inf = 0, 1/nan = nan.
QRecip(a) ==
    IF IsNaN(a) THEN NaN
    ELSE IF a[2] = 0 THEN Zero
    ELSE IF a[1] = 0 THEN Inf
    ELSE Q(Sgn(a[1]) * a[2], Abs(a[1]))

\* x/0 = +-inf for x # 0, 0/0 = nan, inf/inf = nan.
QDiv(a, b) == IF b = Zero THEN Q(a[1], 0) ELSE QMul(a, QRecip(b))

RECURSIVE QPowNat(_, _)
QPowNat(a, k) == IF k = 0 THEN One ELSE QMul(a, QPowNat(a, k - 1))

\* a ** k for an integer k (k may be negative).
QPow(a, k) == IF k >= 0 THEN QPowNat(a, k) ELSE QRecip(QPowNat(a, -k))

QAbs(a) == <<Abs(a[1]), a[2]>>

\* Comparisons with nan are false.
QLt(a, b) ==
    IF IsNaN(a) \/ IsNaN(b) THEN FALSE
    ELSE IF a[2] = 0 /\ b[2] = 0 THEN a[1] < b[1]
    ELSE IF a[2] = 0 THEN a[1] < 0
    ELSE IF b[2] = 0 THEN b[1] > 0
    ELSE a[1] * b[2] < b[1] * a[2]

QLe(a, b) == ~IsNaN(a) /\ ~IsNaN(b) /\ ~QLt(b, a)

\* np.maximum: nan if either argument is nan.
QMaximum(a, b) ==
    IF IsNaN(a) \/ IsNaN(b) THEN NaN ELSE IF QLt(a, b) THEN b ELSE a

ISqrt(n) == CHOOSE r \in 0..n : r * r = n

\* np.sqrt: nan for a negative argument.
QSqrt(a) ==
    IF IsNaN(a) THEN NaN
    ELSE IF a[2] = 0 THEN (IF a[1] > 0 THEN Inf ELSE NaN)
    ELSE IF a[1] < 0 THEN NaN
    ELSE <<ISqrt(a[1]), ISqrt(a[2])>>

\* np.ceil(x).astype(np.int) of a finite x.
QCeil(a) ==
    IF a[1] >= 0 THEN (a[1] + a[2] - 1) \div a[2] ELSE -((-a[1]) \div a[2])

\* The sum of the first n entries of s.
RECURSIVE QSumTo(_, _)
QSumTo(s, n) == IF n = 0 THEN Zero ELSE QAdd(QSumTo(s, n - 1), s[n])

QSum(s) == QSumTo(s, Len(s))

\* The subsequence of s at the positions where the mask holds (s[mask]).
RECURSIVE MaskedTo(_, _, _)
MaskedTo(s, mask, n) ==
    IF n = 0 THEN <<>>
    ELSE MaskedTo(s, mask, n - 1) \o (IF mask[n] THEN <<s[n]>> ELSE <<>>)

Masked(s, mask) == MaskedTo(s, mask, Len(s))

\* The two-sided normal quantile norm.ppf((1 + confidence) / 2) of the run, for a
\* confidence of 0.9545.
Ca == QI(2)

(***************************************************************************)
(* SampleAllocator: _calcTheoryM.                                          *)
(***************************************************************************)
tmAct(active_lvls) == [i \in 1..Len(active_lvls) |-> active_lvls[i] >= 0]

tmRaw_PlusTwo(TOL, theta, Vl, Wl, act, ca) ==
    LET pre == QPow(QDiv(QMul(theta, TOL), ca), 2)
        tot == QSum(Masked([i \in 1..Len(Vl) |-> QSqrt(QMul(Wl[i], Vl[i]))], act))
    IN  [i \in 1..Len(Vl) |-> QMul(QMul(pre, tot), QSqrt(QDiv(Vl[i], Wl[i])))]

tmRaw_OwnTerm(TOL, theta, Vl, Wl, act, ca) ==
    LET pre == QPow(QDiv(QMul(theta, TOL), ca), -2)
    IN  [i \in 1..Len(Vl) |-> QMul(QMul(pre, QSqrt(QMul(Wl[i], Vl[i]))),
                                   QSqrt(QDiv(Vl[i], Wl[i])))]

\* M = (theta * TOL / Ca)**-2 * np.sum(np.sqrt(Wl[act] * Vl[act])) * np.sqrt(Vl / Wl)
tmRaw(TOL, theta, Vl, Wl, act, ca) ==
    LET pre == QPow(QDiv(QMul(theta, TOL), ca), -2)
        tot == QSum(Masked([i \in 1..Len(Vl) |-> QSqrt(QMul(Wl[i], Vl[i]))], act))
    IN  [i \in 1..Len(Vl) |-> QMul(QMul(pre, tot), QSqrt(QDiv(Vl[i], Wl[i])))]

tmClamp_Skip(M, minM) == M

\* M = np.maximum(M, minM)
tmClamp(M, minM) == [i \in 1..Len(M) |-> QMaximum(M[i], QI(minM))]

tmFillNaN_Zero(M, minM) == [i \in 1..Len(M) |-> IF IsNaN(M[i]) THEN Zero ELSE M[i]]

\* M[np.isnan(M)] = minM
tmFillNaN(M, minM) == [i \in 1..Len(M) |-> IF IsNaN(M[i]) THEN QI(minM) ELSE M[i]]

\* M[np.logical_not(act)] = 0
tmMaskInactive(M, act) == [i \in 1..Len(M) |-> IF ~act[i] THEN Zero ELSE M[i]]

\* np.ceil(M).astype(np.int)
tmCeil(M) == [i \in 1..Len(M) |-> QCeil(M[i])]

calcTheoryM(TOL, theta, Vl, Wl, active_lvls, minM, ca) ==
    LET act == tmAct(active_lvls)
    IN  tmCeil(tmMaskInactive(
            tmFillNaN(tmClamp(tmRaw(TOL, theta, Vl, Wl, act, ca), minM), minM), act))

(***************************************************************************)
(* Specification SpecTM: _calcTheoryM applied to bounded inputs, once for  *)
(* each of two tolerances.  Works are positive (the work model's           *)
(* contract), variances are nan or non-negative.                           *)
(***************************************************************************)
TMLvls == 2

TMVarChoices == {NaN, Zero, One, QI(4)}

TMWorkChoices == {One, QI(4)}

TMFlagChoices == {-1, 0, 1}

TMTolChoices == {Q(1, 2), One}

TMThetaChoices == {Q(1, 2), One}

TMMinChoices == {1, 2}

Idle == [pc |-> "idle"]

TMInit ==
    /\ \E n \in 1..TMLvls :
         \E Vl \in [1..n -> TMVarChoices], Wl \in [1..n -> TMWorkChoices],
            act \in [1..n -> TMFlagChoices] :
           \E TOL \in TMTolChoices, TOL2 \in TMTolChoices,
              theta \in TMThetaChoices, minM \in TMMinChoices :
             tm = [pc |-> "call", TOL |-> TOL, TOL2 |-> TOL2, theta |-> theta,
                   Vl |-> Vl, Wl |-> Wl, act |-> act, minM |-> minM,
                   M |-> <<>>, M2 |-> <<>>]
    /\ itr = Idle
    /\ run = Idle
    /\ fn = Idle

TMCall ==
    /\ tm.pc = "call"
    /\ tm' = [tm EXCEPT !.pc = "done",
                        !.M = calcTheoryM(tm.TOL, tm.theta, tm.Vl, tm.Wl, tm.act, tm.minM, Ca),
                        !.M2 = calcTheoryM(tm.TOL2, tm.theta, tm.Vl, tm.Wl, tm.act, tm.minM, Ca)]
    /\ UNCHANGED <<itr, run, fn>>

TMNext == TMCall

SpecTM == TMInit /\ [][TMNext]_vars

TMLevels == 1..Len(tm.Vl)

TMAllDefined == \A k \in TMLevels : tm.act[k] >= 0 => ~IsNaN(tm.Vl[k])

\* C6 as stated: a level with nan variance, and an inactive level, gets M[l] = 0.
C6_Original ==
    tm.pc = "done" =>
        \A l \in TMLevels : (IsNaN(tm.Vl[l]) \/ tm.act[l] < 0) => tm.M[l] = 0

\* C6 (amended): an inactive level (activeFlag < 0) gets M[l] = 0, and a level
\* with activeFlag >= 0 whose variance is nan gets M[l] = minimum, not 0.
C6_NaNVarianceGetsMinimum ==
    tm.pc = "done" =>
        \A l \in TMLevels :
            /\ tm.act[l] < 0 => tm.M[l] = 0
            /\ (tm.act[l] >= 0 /\ IsNaN(tm.Vl[l])) => tm.M[l] = tm.minM

C6_Witness ==
    /\ tm.pc = "done"
    /\ \E l \in TMLevels : tm.act[l] >= 0 /\ IsNaN(tm.Vl[l]) /\ tm.M[l] = tm.minM
    /\ \E l \in TMLevels : tm.act[l] < 0 /\ IsNaN(tm.Vl[l]) /\ tm.M[l] = 0

\* C7: the sample counts are non-increasing in the tolerance: TOL <= TOL2 implies
\* M(TOL)[l] >= M(TOL2)[l] at every level, all other inputs being equal.
C7_MonotoneInTolerance ==
    (tm.pc = "done" /\ QLe(tm.TOL, tm.TOL2)) =>
        \A l \in TMLevels : tm.M[l] >= tm.M2[l]

C7_Witness ==
    /\ tm.pc = "done"
    /\ QLt(tm.TOL, tm.TOL2)
    /\ \E l \in TMLevels : tm.M[l] > tm.M2[l]

\* C8: a level with activeFlag >= 0 whose variance is 0 gets exactly minimum,
\* whatever the tolerance, theta, the works and the other levels' variances.
C8_ZeroVarianceGetsMinimum ==
    tm.pc = "done" =>
        \A l \in TMLevels : (tm.act[l] >= 0 /\ tm.Vl[l] = Zero) => tm.M[l] = tm.minM

C8_Witness ==
    /\ tm.pc = "done"
    /\ tm.minM = 2
    /\ \E l, k \in TMLevels :
         /\ tm.act[l] >= 0 /\ tm.Vl[l] = Zero /\ tm.M[l] = 2
         /\ tm.act[k] >= 0 /\ QLt(Zero, tm.Vl[k]) /\ tm.M[k] > 2

\* sum over the levels with activeFlag >= 0 of sqrt(variance * work)
C9_Total ==
    QSum(Masked([k \in TMLevels |-> QSqrt(QMul(tm.Vl[k], tm.Wl[k]))],
                [k \in TMLevels |-> tm.act[k] >= 0]))

C9_Scale == QPow(QDiv(QMul(tm.theta, tm.TOL), Ca), -2)

\* C9 as stated, with sqrt(work[l] / variance[l]), where the formula is defined.
C9_Original ==
    (tm.pc = "done" /\ TMAllDefined) =>
        \A l \in TMLevels :
            (tm.act[l] >= 0 /\ QLt(Zero, tm.Vl[l]) /\ QLt(Zero, tm.Wl[l])) =>
                tm.M[l] = QCeil(QMaximum(QI(tm.minM),
                              QMul(QMul(C9_Scale, QSqrt(QDiv(tm.Wl[l], tm.Vl[l]))),
                                   C9_Total)))

\* C9 (amended): for every level l with activeFlag >= 0 and positive variance
\* and work, when the variance of every level with activeFlag >= 0 is defined,
\* M[l] = ceil(max(minimum, (theta*TOL/Ca)^-2 * sqrt(variance[l]/work[l]) *
\* sum over those levels of sqrt(variance*work))); when one of them is nan,
\* M[l] = minimum.
C9_OptimalAllocation ==
    tm.pc = "done" =>
        \A l \in TMLevels :
            (tm.act[l] >= 0 /\ QLt(Zero, tm.Vl[l]) /\ QLt(Zero, tm.Wl[l])) =>
                tm.M[l] = IF TMAllDefined
                          THEN QCeil(QMaximum(QI(tm.minM),
                                   QMul(QMul(C9_Scale, QSqrt(QDiv(tm.Vl[l], tm.Wl[l]))),
                                        C9_Total)))
                          ELSE tm.minM

C9_Witness ==
    /\ tm.pc = "done"
    /\ TMAllDefined
    /\ \E l, k \in TMLevels :
         /\ l # k
         /\ tm.act[l] >= 0 /\ tm.act[k] >= 0
         /\ QLt(Zero, tm.Vl[l]) /\ QLt(Zero, tm.Vl[k])
         /\ tm.Vl[l] # tm.Wl[l]
         /\ tm.M[l] > tm.minM

(***************************************************************************)
(* MomentEngine: compute_raw_moments, compute_central_moment.              *)
(* psums is a sequence (one row per level) of sequences (one power sum per *)
(* tracked moment); M is the sequence of sample counts.                    *)
(***************************************************************************)
RECURSIVE Factorial(_)
Factorial(n) == IF n <= 1 THEN 1 ELSE n * Factorial(n - 1)

SignPow(k) == IF k % 2 = 0 THEN 1 ELSE -1

\* val[idx] = psums[idx] * (1. / M[idx]); val[M == 0, :] = None
compute_raw_moments(psums, M) ==
    [i \in 1..Len(psums) |->
        [p \in 1..Len(psums[i]) |->
            IF M[i] # 0 THEN QMul(psums[i][p], QRecip(QI(M[i]))) ELSE NaN]]

\* One term of the binomial expansion: raw_k * raw_1**(n-k) * nchoosek * (-1)**(n-k)
cmTerm(raw, n, k) ==
    LET nchoosek == Factorial(n) \div (Factorial(k) * Factorial(n - k))
    IN  QMul(QMul(QMul(raw[k], QPow(raw[1], n - k)), QI(nchoosek)), QI(SignPow(n - k)))

RECURSIVE cmSum(_, _, _)
cmSum(raw, n, k) == IF k = 0 THEN Zero ELSE QAdd(cmSum(raw, n, k - 1), cmTerm(raw, n, k))

\* The binomial sum alone, without the term raw_1**n * (-1)**n it starts from.
centralFromRaw_NoLeadingTerm(raw, moment) ==
    [i \in 1..Len(raw) |->
        IF moment = 1 THEN raw[i][1] ELSE cmSum(raw[i], moment, moment)]

centralFromRaw(raw, moment) ==
    [i \in 1..Len(raw) |->
        IF moment = 1 THEN raw[i][1]
        ELSE QAdd(QMul(QPow(raw[i][1], moment), QI(SignPow(moment))),
                  cmSum(raw[i], moment, moment))]

\* compute_central_moment(psums, M, moment)
compute_central_moment(psums, M, moment) ==
    centralFromRaw(compute_raw_moments(psums, M), moment)

(***************************************************************************)
(* MIMCItrData.  The level set _lvls is one-dimensional: it holds the      *)
(* levels [0], [1], ..., and is known by its length.  A state owns a       *)
(* reference `lvls` to a level set; psums_delta and psums_fine are None    *)
(* until the first samples arrive (has_delta, has_fine).                   *)
(***************************************************************************)
NoneQ == <<0, -1>>

Fill(n, v) == [i \in 1..n |-> v]

\* ndarray.resize(new_count, refcheck=False): keeps the entries, pads with zeros.
Resize(s, n, zero) == [i \in 1..n |-> IF i <= Len(s) THEN s[i] ELSE zero]

\* MIMCItrData.__init__, before its call of _levels_added.
ItrFields(lvls, moments) ==
    [lvls |-> lvls, moments |-> moments, lvls_count |-> 0,
     has_delta |-> FALSE, has_fine |-> FALSE,
     psums_delta |-> <<>>, psums_fine |-> <<>>,
     tT |-> <<>>, tW |-> <<>>, M |-> <<>>,
     bias |-> Inf, stat_error |-> Inf, TOL |-> NoneQ,
     Vl_estimate |-> <<>>, weights |-> <<>>, active_lvls |-> <<>>]

\* _levels_added without the assignment weights[_lvls_count:new_count] = 1.
levels_added_ZeroWeights(it, new_count) ==
    IF new_count = it.lvls_count THEN it
    ELSE LET zrow == Fill(it.moments, Zero)
         IN  [it EXCEPT
                !.psums_delta = IF it.has_delta THEN Resize(@, new_count, zrow) ELSE @,
                !.psums_fine = IF it.has_fine THEN Resize(@, new_count, zrow) ELSE @,
                !.Vl_estimate = Resize(@, new_count, Zero),
                !.tT = Resize(@, new_count, 0),
                !.tW = Resize(@, new_count, 0),
                !.M = Resize(@, new_count, 0),
                !.weights = Resize(@, new_count, Zero),
                !.active_lvls = Resize(@, new_count, 1),
                !.lvls_count = new_count]

\* MIMCItrData._levels_added, new_count being len(self._lvls).
levels_added(it, new_count) ==
    IF new_count = it.lvls_count THEN it
    ELSE LET zrow == Fill(it.moments, Zero)
         IN  [it EXCEPT
                !.psums_delta = IF it.has_delta THEN Resize(@, new_count, zrow) ELSE @,
                !.psums_fine = IF it.has_fine THEN Resize(@, new_count, zrow) ELSE @,
                !.Vl_estimate = Resize(@, new_count, Zero),
                !.tT = Resize(@, new_count, 0),
                !.tW = Resize(@, new_count, 0),
                !.M = Resize(@, new_count, 0),
                !.weights = Resize(@, new_count, One),
                !.active_lvls = Resize(@, new_count, 1),
                !.lvls_count = new_count]

\* MIMCItrData(parent, min_dim, moments, lvls): the fields, then _levels_added().
NewItrData(lvls, lvls_len, moments) == levels_added(ItrFields(lvls, moments), lvls_len)

\* MIMCItrData.addSamples.
addSamples(it, l, batch) ==
    LET zrows == Fill(it.lvls_count, Fill(it.moments, Zero))
        pd    == IF it.has_delta THEN it.psums_delta ELSE zrows
        pf    == IF it.has_fine THEN it.psums_fine ELSE zrows
        addv(a, b) == [p \in 1..Len(a) |-> QAdd(a[p], b[p])]
    IN  IF it.M[l] = 0
        THEN [it EXCEPT !.has_delta = TRUE, !.has_fine = TRUE,
                        !.psums_delta = [pd EXCEPT ![l] = batch.psums_delta],
                        !.psums_fine = [pf EXCEPT ![l] = batch.psums_fine],
                        !.M[l] = batch.M, !.tT[l] = batch.tT, !.tW[l] = batch.tW]
        ELSE [it EXCEPT !.psums_delta[l] = addv(@, batch.psums_delta),
                        !.psums_fine[l] = addv(@, batch.psums_fine),
                        !.M[l] = @ + batch.M, !.tT[l] = @ + batch.tT,
                        !.tW[l] = @ + batch.tW]

\* MIMCItrData.zero_samples(ind=None).
zero_samples(it) ==
    LET zrows == Fill(it.lvls_count, Fill(it.moments, Zero))
    IN  [it EXCEPT !.M = Fill(Len(@), 0), !.tT = Fill(Len(@), 0), !.tW = Fill(Len(@), 0),
                   !.psums_delta = IF it.has_delta THEN zrows ELSE @,
                   !.psums_fine = IF it.has_fine THEN zrows ELSE @]

\* w[slicer] * B with w = self.weights**moment
cmWeighted(it, B, moment, weighted) ==
    [i \in 1..Len(B) |-> IF weighted THEN QMul(QPow(it.weights[i], moment), B[i]) ELSE B[i]]

\* MIMCItrData.calcDeltaCentralMoment: an empty array while psums_delta is None.
calcDeltaCentralMoment(it, moment, weighted) ==
    IF ~it.has_delta THEN <<>>
    ELSE cmWeighted(it, compute_central_moment(it.psums_delta, it.M, moment), moment, weighted)

\* MIMCItrData.calcFineCentralMoment (it tests psums_delta, as the source does).
calcFineCentralMoment(it, moment, weighted) ==
    IF ~it.has_delta THEN <<>>
    ELSE cmWeighted(it, compute_central_moment(it.psums_fine, it.M, moment), moment, weighted)

\* The boolean masks of calcEl index an array of lvls_count rows: with
\* psums_delta None and levels present the indexing raises IndexError.
calcElRaises(it) == ~it.has_delta /\ it.lvls_count > 0

calcElSelect_FineWhereActive(it, D, F) ==
    [i \in 1..Len(D) |->
        IF it.active_lvls[i] < 0 THEN NaN
        ELSE IF it.active_lvls[i] >= 0 THEN F[i] ELSE D[i]]

calcElSelect_BaseUndefined(it, D, F) ==
    [i \in 1..Len(D) |->
        IF it.active_lvls[i] <= 0 THEN NaN
        ELSE IF it.active_lvls[i] = 0 THEN F[i] ELSE D[i]]

\* MIMCItrData.calcEl(moment, active_only=False, weighted): El = delta moments;
\* El[active_lvls == 0] = fine moments; El[active_lvls < 0] = None.
calcElSelect(it, D, F) ==
    [i \in 1..Len(D) |->
        IF it.active_lvls[i] < 0 THEN NaN
        ELSE IF it.active_lvls[i] = 0 THEN F[i] ELSE D[i]]

calcEl(it, moment, weighted) ==
    calcElSelect(it, calcDeltaCentralMoment(it, moment, weighted),
                 calcFineCentralMoment(it, moment, weighted))

\* MIMCItrData.calcVl(active_only=False, weighted)
calcVl(it, weighted) == calcEl(it, 2, weighted)

\* MIMCItrData.calcWl: tW / M where M # 0, else 0.
calcWl(it) ==
    [i \in 1..Len(it.M) |-> IF it.M[i] # 0 THEN Q(it.tW[i], it.M[i]) ELSE Zero]

\* MIMCItrData.total_error_est
total_error_est(it) == QAdd(it.bias, IF ~IsNaN(it.stat_error) THEN it.stat_error ELSE Zero)

(***************************************************************************)
(* ML2R combination weights.  The argument x stands for exp(-alpha), so    *)
(* that exp(-alpha * k) = x**k is rational; the runs use alpha =           *)
(* w * log(beta) with beta**w = 2.                                         *)
(***************************************************************************)
ExpNegAlpha == Q(1, 2)

\* denom = np.hstack(([1.], np.cumprod(1 - np.exp(-alpha * (ell + 1))))), 0-based.
RECURSIVE ml2rDenom(_, _)
ml2rDenom(x, j) ==
    IF j = 0 THEN One ELSE QMul(ml2rDenom(x, j - 1), QSub(One, QPow(x, j)))

\* w[ell] of calc_ml2r_weights, 0-based.
ml2rW(x, L, ell) ==
    QDiv(QMul(QI(SignPow(L - ell)), QPow(x, ((L - ell) * (L + 1 - ell)) \div 2)),
         QMul(ml2rDenom(x, ell), ml2rDenom(x, L - ell)))

\* The vector w itself, without the cumulative sum.
calc_ml2r_weights_NoCumsum(x, L) == [i \in 1..(L + 1) |-> ml2rW(x, L, i - 1)]

\* calc_ml2r_weights(alpha, L): np.cumsum(w[::-1])[::-1], as a sequence 1..L+1.
calc_ml2r_weights(x, L) ==
    [i \in 1..(L + 1) |-> QSum([k \in 1..(L + 2 - i) |-> ml2rW(x, L, i + k - 2)])]

(***************************************************************************)
(* Specification bounds of SpecItr and the sample batches it draws.        *)
(***************************************************************************)
Moments == 2

MaxItrLvls == 3

MaxBatches == 2

\* calc_ml2r_weights(alpha, L), evaluated once for each L the model can ask for.
ml2rWeightsOf == [L \in 0..MaxItrLvls |-> calc_ml2r_weights(ExpNegAlpha, L)]

(***************************************************************************)
(* MIMCRun._update_active_lvls and update_ml2r_weights, on the state they  *)
(* change (last_itr).  Level i of the one-dimensional set is [i - 1].      *)
(***************************************************************************)
\* update_ml2r_weights: weights[active_lvls >= 0] = calc_ml2r_weights(alpha, L),
\* L = max(ell) - min(ell) over the levels with active_lvls >= 0.
update_ml2r_weights(it, ml2r) ==
    IF ~ml2r THEN it
    ELSE LET first == CHOOSE i \in 1..it.lvls_count :
                        /\ it.active_lvls[i] >= 0
                        /\ \A j \in 1..(i - 1) : it.active_lvls[j] < 0
             L     == it.lvls_count - first
             w     == ml2rWeightsOf[L]
         IN  [it EXCEPT !.weights =
                [i \in 1..it.lvls_count |->
                    IF it.active_lvls[i] >= 0 THEN w[i - first + 1] ELSE One]]

\* The flags with the level at cur_start_level counted among those above it.
update_active_lvls_NoFirst(it, cur_start_level, ml2r) ==
    update_ml2r_weights(
        [it EXCEPT !.active_lvls =
            [i \in 1..it.lvls_count |-> IF i - 1 >= cur_start_level THEN 1 ELSE -1]],
        ml2r)

\* _update_active_lvls: -1 everywhere, 1 where lvls[:, 0] > cur_start_level,
\* 0 where lvls[:, 0] == cur_start_level; then update_ml2r_weights().
update_active_lvls(it, cur_start_level, ml2r) ==
    update_ml2r_weights(
        [it EXCEPT !.active_lvls =
            [i \in 1..it.lvls_count |->
                IF i - 1 > cur_start_level THEN 1
                ELSE IF i - 1 = cur_start_level THEN 0 ELSE -1]],
        ml2r)

(***************************************************************************)
(* Specification SpecItr: the operations of MIMCItrData applied in any     *)
(* order to a state, with sample batches drawn from BatchChoices.          *)
(***************************************************************************)
RECURSIVE IntPow(_, _)
IntPow(x, k) == IF k = 0 THEN 1 ELSE x * IntPow(x, k - 1)

RECURSIVE SumIntsTo(_, _)
SumIntsTo(s, n) == IF n = 0 THEN 0 ELSE SumIntsTo(s, n - 1) + s[n]

SumInts(s) == SumIntsTo(s, Len(s))

\* The power sums sum_j x_j**p, p = 1..moments, of the samples xs.
PowerSums(xs, moments) ==
    [p \in 1..moments |-> QI(SumInts([j \in 1..Len(xs) |-> IntPow(xs[j], p)]))]

\* What the sampling callback returns for one level: the count, the power sums
\* of the delta and of the fine samples, the time and the work.
Batch(ds, fs, moments) ==
    [M |-> Len(ds), psums_delta |-> PowerSums(ds, moments),
     psums_fine |-> PowerSums(fs, moments), tT |-> Len(ds), tW |-> 2 * Len(ds)]

\* Two samples with delta values 3, 1 (mean 2, variance 1) and fine values 1, 5
\* (mean 3, variance 4).
BatchChoices == {Batch(<<3, 1>>, <<1, 5>>, Moments)}

NoRet == [op |-> "none"]

ItrInit ==
    /\ \E ml2r \in BOOLEAN :
         itr = [sets |-> <<0>>, objs |-> <<NewItrData(1, 0, Moments)>>, adds |-> 0,
                ml2r |-> ml2r, ret |-> NoRet]
    /\ tm = Idle
    /\ run = Idle
    /\ fn = Idle

\* lvls_add_from_list([[n]]) on a state: the set grows, then _levels_added().
ItrAddLevel ==
    /\ \E k \in 1..Len(itr.objs) :
         LET it == itr.objs[k]
             n  == itr.sets[it.lvls] + 1
         IN  /\ n <= MaxItrLvls
             /\ itr' = [itr EXCEPT !.sets[it.lvls] = n, !.objs[k] = levels_added(it, n),
                                   !.ret = NoRet]
    /\ UNCHANGED <<tm, run, fn>>

ItrAddSamples ==
    /\ itr.adds < MaxBatches
    /\ \E k \in 1..Len(itr.objs) :
         \E l \in 1..itr.objs[k].lvls_count, b \in BatchChoices :
             itr' = [itr EXCEPT !.objs[k] = addSamples(@, l, b), !.adds = @ + 1,
                                !.ret = NoRet]
    /\ UNCHANGED <<tm, run, fn>>

\* MIMCRun._update_active_lvls with last_itr = the state, for a first usable level s.
ItrUpdateActive ==
    /\ \E k \in 1..Len(itr.objs) :
         LET it == itr.objs[k]
         IN  /\ it.lvls_count = itr.sets[it.lvls]
             /\ \E s \in 0..(it.lvls_count - 1) :
                  itr' = [itr EXCEPT !.objs[k] = update_active_lvls(it, s, itr.ml2r),
                                     !.ret = NoRet]
    /\ UNCHANGED <<tm, run, fn>>

\* A call of calcEl on a state; the call returns unless the masks raise.
ItrCalcEl ==
    /\ \E k \in 1..Len(itr.objs) :
         LET it == itr.objs[k]
         IN  /\ ~calcElRaises(it)
             /\ \E moment \in 1..it.moments, weighted \in BOOLEAN :
                  itr' = [itr EXCEPT !.ret = [op |-> "calcEl", k |-> k,
                                              moment |-> moment, weighted |-> weighted,
                                              val |-> calcEl(it, moment, weighted)]]
    /\ UNCHANGED <<tm, run, fn>>

ItrNext ==
    \/ ItrAddLevel
    \/ ItrAddSamples
    \/ ItrUpdateActive
    \/ ItrCalcEl

SpecItr == ItrInit /\ [][ItrNext]_vars

\* The central moments of the given order of all levels from the given power
\* sums, times combinationWeight**order when weighted.
C10_Moments(it, psums, moment, weighted) ==
    LET B == compute_central_moment(psums, it.M, moment)
    IN  [l \in 1..Len(B) |->
            IF weighted THEN QMul(QPow(it.weights[l], moment), B[l]) ELSE B[l]]

\* C10: calcEl returns, at every level and for every moment order, the delta
\* central moment where activeFlag > 0, the fine central moment where
\* activeFlag = 0 and NaN where activeFlag < 0, each defined entry multiplied by
\* combinationWeight^order when weighted; one entry per level.
C10_LevelEstimator ==
    itr.ret.op = "calcEl" =>
        LET it    == itr.objs[itr.ret.k]
            delta == C10_Moments(it, it.psums_delta, itr.ret.moment, itr.ret.weighted)
            fine  == C10_Moments(it, it.psums_fine, itr.ret.moment, itr.ret.weighted)
        IN  /\ Len(itr.ret.val) = it.lvls_count
            /\ \A l \in 1..it.lvls_count :
                 itr.ret.val[l] =
                    IF it.active_lvls[l] > 0 THEN delta[l]
                    ELSE IF it.active_lvls[l] = 0 THEN fine[l]
                    ELSE NaN

\* activeFlags [-1, 0, 1]: position 0 undefined, position 1 the fine first
\* moment (3, the delta one being 2), position 2 the weighted delta moment.
C10_Witness ==
    /\ itr.ret.op = "calcEl"
    /\ itr.ret.moment = 1
    /\ itr.ret.weighted
    /\ LET it == itr.objs[itr.ret.k]
       IN  /\ it.active_lvls = <<-1, 0, 1>>
           /\ itr.ret.val[1] = NaN
           /\ itr.ret.val[2] = QI(3)
           /\ it.weights[3] # One
           /\ itr.ret.val[3] = QMul(it.weights[3], QI(2))

(***************************************************************************)
(* A one-dimensional run.  The parameters: level separation beta, work     *)
(* exponent gamma, weak rate w and strong rate s; M0, incL, the prior      *)
(* strengths and bayes_fit_lvls keep their defaults.                       *)
(***************************************************************************)
Beta == 2

Gamma == 3

RateW == 1

RateS == 2

M0 == 1

incL == 2

bayes_fit_lvls == 1000

bayes_k0 == Q(1, 10)

bayes_k1 == Q(1, 10)

\* get_geometric_hl(lvls, h0inv = 1, beta): beta ** -l / h0inv.
Hierarchy(l) == QDiv(QPow(QI(Beta), -l), One)

\* work_estimate(lvls, gamma * log(beta)): exp(l * gamma * log(beta)).
WorkModel(l) == IntPow(Beta, Gamma * l)

\* expand_delta([l]): the pairs (mod, ind) of the difference estimator.
expand_delta(l) ==
    LET seeds == IF l = 0 THEN <<0>> ELSE <<0, 1>>
    IN  [k \in 1..Len(seeds) |->
            [mod |-> (((2 * l) % 2) - 1) * (2 * (seeds[k] % 2) - 1),
             ind |-> l - seeds[k]]]

\* The noiseless sampling function: every sample at level ind is h(ind).
fnSample(ind) == Hierarchy(ind)

\* default_sample_all for one level with M[i] = m > 0: m samples, one call.
SampleLvl(l, m, moments) ==
    LET ex    == expand_delta(l)
        delta == QSum([k \in 1..Len(ex) |-> QMul(QI(ex[k].mod), fnSample(ex[k].ind))])
        fine  == fnSample(ex[1].ind)
    IN  [M |-> m,
         psums_delta |-> [p \in 1..moments |-> QMul(QI(m), QPow(delta, p))],
         psums_fine |-> [p \in 1..moments |-> QMul(QI(m), QPow(fine, p))],
         tT |-> m, tW |-> m * WorkModel(l)]

\* fn.SampleAll(lvls, M, moments): calcM[i] = 0 where M[i] <= 0.
SampleAll(M, moments) ==
    [i \in 1..Len(M) |->
        IF M[i] <= 0 THEN [M |-> 0] ELSE SampleLvl(i - 1, M[i], moments)]

\* LevelSet.is_boundary() of the one-dimensional set [0], ..., [n-1].
is_boundary(n) == [i \in 1..n |-> i = n]

(***************************************************************************)
(* MIMCRun: the properties last_itr, all_itr, Q, and raising.              *)
(***************************************************************************)
last_itr(r) == r.iters[Len(r.iters)]

all_itr(r) == IF r.p.reuse_samples THEN last_itr(r) ELSE r.all

lastQ(r) == r.Qs[Len(r.Qs)]

SetLast(r, it) == [r EXCEPT !.iters[Len(r.iters)] = it]

Raise(r, msg) == [r EXCEPT !.pc = "raised", !.err = msg]

\* MIMCItrData.copy(copy_lvls=False): every array is copied, the level set shared.
next_itr(it) ==
    [lvls |-> it.lvls, moments |-> it.moments, lvls_count |-> it.lvls_count,
     has_delta |-> it.has_delta, has_fine |-> it.has_fine,
     psums_delta |-> it.psums_delta, psums_fine |-> it.psums_fine,
     tT |-> it.tT, tW |-> it.tW, M |-> it.M,
     bias |-> it.bias, stat_error |-> it.stat_error, TOL |-> it.TOL,
     Vl_estimate |-> it.Vl_estimate, weights |-> it.weights,
     active_lvls |-> it.active_lvls]

(***************************************************************************)
(* The Bayesian estimators.  Level positions are 1-based in the model:     *)
(* position i holds level [i - 1].  An argument L = 0 stands for None      *)
(* (`L = L or ...` takes the default for both).                            *)
(***************************************************************************)
\* hl[i-1]**w - hl[i]**w for the level [j], j >= 1.
bayesT1(j) == QSub(QPow(Hierarchy(j - 1), RateW), QPow(Hierarchy(j), RateW))

\* hl[i-1]**(s/2) - hl[i]**(s/2) for the level [j], j >= 1.
bayesDS(j) ==
    QSub(QPow(Hierarchy(j - 1), RateS \div 2), QPow(Hierarchy(j), RateS \div 2))

bayesT2(j) == QPow(bayesDS(j), -2)

bayesL(r, Larg) == IF Larg # 0 THEN Larg ELSE all_itr(r).lvls_count - 1

\* _estimateBayesianBias raises for L <= 1.
estimateBayesianBiasRaises(r, Larg) == bayesL(r, Larg) <= 1

\* _estimateBayesianBias: Q.W * hl[L]**w.
estimateBayesianBias(r, Larg) ==
    QMul(lastQ(r).W, QPow(Hierarchy(bayesL(r, Larg)), RateW))

\* The levels _estimateQParams fits on: sampled, from max(1, L - bayes_fit_lvls) on.
fitIncluded(a, i) ==
    /\ a.M[i] > 0
    /\ i - 1 >= (IF a.lvls_count - 1 - bayes_fit_lvls > 1
                 THEN a.lvls_count - 1 - bayes_fit_lvls ELSE 1)

\* Q.W = |sum(s1 * t1 * t2) / sum(M * t1**2 * t2)| over the included levels.
fitW(a) ==
    QAbs(QDiv(
        QSum([i \in 1..a.lvls_count |->
                IF fitIncluded(a, i)
                THEN QMul(QMul(a.psums_delta[i][1], bayesT1(i - 1)), bayesT2(i - 1))
                ELSE Zero]),
        QSum([i \in 1..a.lvls_count |->
                IF fitIncluded(a, i)
                THEN QMul(QMul(QI(a.M[i]), QPow(bayesT1(i - 1), 2)), bayesT2(i - 1))
                ELSE Zero])))

\* One level's term of the numerator of Q.S.
fitSTerm(a, W, s1, s2, t1, t2, Mq) ==
    QAdd(QSub(QAbs(QMul(s2, t2)),
              QAbs(QMul(s1, QMul(QMul(QMul(W, t1), QI(2)), t2)))),
         QMul(QMul(QMul(Mq, QPow(W, 2)), QPow(t1, 2)), t2))

\* Q.S = sum(|s2 * t2| - |s1 * 2 W t1 * t2| + M W**2 t1**2 t2) / sum(M).
fitS(a, W) ==
    QDiv(
        QSum([i \in 1..a.lvls_count |->
                IF fitIncluded(a, i)
                THEN fitSTerm(a, W, a.psums_delta[i][1], a.psums_delta[i][2],
                              bayesT1(i - 1), bayesT2(i - 1), QI(a.M[i]))
                ELSE Zero]),
        QSum([i \in 1..a.lvls_count |-> IF fitIncluded(a, i) THEN QI(a.M[i]) ELSE Zero]))

fitQ(q, a, W) == [q EXCEPT !.W = W, !.S = fitS(a, W)]

\* _estimateQParams without the return for a state with no sample at all.
estimateQParams_NoSampleCheck(r) ==
    IF ~r.p.lsq_est THEN r
    ELSE IF all_itr(r).lvls_count - 1 <= 1 THEN Raise(r, "Must have at least 2 levels")
    ELSE [r EXCEPT !.Qs[Len(r.Qs)] = fitQ(@, all_itr(r), fitW(all_itr(r)))]

\* _estimateQParams: the least-squares fit of Q.W and Q.S.
estimateQParams(r) ==
    IF ~r.p.lsq_est THEN r
    ELSE IF SumInts(all_itr(r).M) = 0 THEN r
    ELSE IF all_itr(r).lvls_count - 1 <= 1 THEN Raise(r, "Must have at least 2 levels")
    ELSE [r EXCEPT !.Qs[Len(r.Qs)] = fitQ(@, all_itr(r), fitW(all_itr(r)))]

\* _estimateBayesianVl raises for L <= 1; with L above the current last level
\* the mask act < 0 is shorter than Vl, an IndexError from numpy 1.13 on.
estimateBayesianVlRaises(r, Larg, strict) ==
    /\ SumInts(all_itr(r).M) # 0
    /\ \/ bayesL(r, Larg) <= 1
       \/ strict /\ bayesL(r, Larg) # all_itr(r).lvls_count - 1

estimateBayesianVlError(r, Larg) ==
    IF bayesL(r, Larg) <= 1 THEN "Must have at least 2 levels" ELSE "IndexError"

\* G_3 of the level [j]: k1 * Lambda + tmpM / 2.
bayesG3(a, Qp, j) ==
    QAdd(QMul(bayes_k1, QRecip(QMul(Qp.S, QPow(bayesDS(j), 2)))),
         Q(IF j <= a.lvls_count - 1 THEN a.M[j + 1] ELSE 0, 2))

\* The part of G_4 that the samples of an included level add.
bayesG4Extra(s1, s2, e, Mj, mu) ==
    QMul(Q(1, 2),
         QAdd(QAbs(QAdd(QSub(s2, QMul(QMul(s1, e), QI(2))), QMul(s1, e))),
              QDiv(QMul(QMul(Mj, bayes_k0), QPow(QSub(QAbs(e), mu), 2)),
                   QAdd(bayes_k0, Mj))))

\* G_4 of the level [j].
bayesG4(a, Qp, m1, j) ==
    IF j >= 1 /\ j <= a.lvls_count - 1 /\ a.M[j + 1] > 0
    THEN QAdd(bayes_k1,
              bayesG4Extra(a.psums_delta[j + 1][1], a.psums_delta[j + 1][2], m1[j + 1],
                           QI(a.M[j + 1]), QMul(Qp.W, bayesT1(j))))
    ELSE bayes_k1

\* _estimateBayesianVl: Vl[0] the fine variance, Vl[1:] = G_4 / G_3, the base
\* levels the fine variance, the inactive levels nan.
bayesianVlOf(a, L, Qp, m1, fine) ==
    [i \in 1..(L + 1) |->
        IF i <= Len(a.active_lvls) /\ a.active_lvls[i] < 0 THEN NaN
        ELSE IF i <= Len(a.active_lvls) /\ a.active_lvls[i] = 0 THEN QAbs(fine[i])
        ELSE IF i = 1 THEN QAbs(fine[1])
        ELSE QDiv(bayesG4(a, Qp, m1, i - 1), bayesG3(a, Qp, i - 1))]

absAll(v) == [i \in 1..Len(v) |-> QAbs(v[i])]

estimateBayesianVl(r, Larg) ==
    IF SumInts(all_itr(r).M) = 0 THEN absAll(calcVl(all_itr(r), TRUE))
    ELSE bayesianVlOf(all_itr(r), bayesL(r, Larg), lastQ(r), calcEl(all_itr(r), 1, TRUE),
                      calcFineCentralMoment(all_itr(r), 2, TRUE))

(***************************************************************************)
(* Bias estimation and _estimateAll.                                       *)
(***************************************************************************)
biasOfBoundary_AllLevels(it, El) ==
    QAbs(QSum([i \in 1..Len(El) |-> IF it.active_lvls[i] <= 0 THEN Zero ELSE El[i]]))

\* The sum over the boundary of the norm of each entry.
biasOfBoundaryOn_SumOfNorms(it, El, bnd) ==
    QSum(Masked([i \in 1..Len(El) |-> IF it.active_lvls[i] = 0 THEN Inf ELSE QAbs(El[i])],
                bnd))

\* El[active_lvls == 0] = inf; bias = fnNorm1(np.sum(El[bnd])), bnd being the
\* mask is_boundary() returns.
biasOfBoundaryOn(it, El, bnd) ==
    QAbs(QSum(Masked([i \in 1..Len(El) |-> IF it.active_lvls[i] = 0 THEN Inf ELSE El[i]],
                     bnd)))

\* The same on the one-dimensional level set of the runs.
biasOfBoundary(it, El) == biasOfBoundaryOn(it, El, is_boundary(it.lvls_count))

\* estimate_bias_bnd: no entry of the float array `is None`, so the sum of the
\* boundary entries is always taken.
estimate_bias_bnd(it) == biasOfBoundary(it, calcEl(it, 1, TRUE))

\* fn.EstimateBias as _checkFunctions installs it (ml2r off, bias_calc 'bnd').
EstimateBiasRaises(r) == r.p.lsq_est /\ estimateBayesianBiasRaises(r, 0)

EstimateBias(r) ==
    IF r.p.lsq_est THEN estimateBayesianBias(r, 0) ELSE estimate_bias_bnd(last_itr(r))

\* The statistical error with the test M == 0 made on every level, inactive
\* ones included.
estimateStatError_AllLevels(it, Vl) ==
    LET act == [i \in 1..it.lvls_count |-> it.active_lvls[i] >= 0]
    IN  IF \E i \in 1..it.lvls_count : it.M[i] = 0 THEN Inf
        ELSE QMul(Ca, QSqrt(QSum(Masked(
                [i \in 1..it.lvls_count |-> QDiv(Vl[i], QI(it.M[i]))], act))))

\* The statistical error of _estimateAll.
estimateStatError(it, Vl) ==
    LET act == [i \in 1..it.lvls_count |-> it.active_lvls[i] >= 0]
    IN  IF \E i \in 1..it.lvls_count : act[i] /\ it.M[i] = 0 THEN Inf
        ELSE QMul(Ca, QSqrt(QSum(Masked(
                [i \in 1..it.lvls_count |-> QDiv(Vl[i], QI(it.M[i]))], act))))

\* The non-Bayesian Vl_estimate of _estimateAll.
absWhereActive(it, v) ==
    [i \in 1..it.lvls_count |-> IF it.active_lvls[i] >= 0 THEN QAbs(v[i]) ELSE NaN]

estimateVl(r) == absWhereActive(last_itr(r), calcVl(all_itr(r), TRUE))

\* The end of _estimateAll: bias = fn.EstimateBias().
estimateAllBias(r) ==
    IF EstimateBiasRaises(r) THEN Raise(r, "Must have at least 2 levels")
    ELSE SetLast(r, [last_itr(r) EXCEPT !.bias = EstimateBias(r)])

\* Vl_estimate and stat_error of _estimateAll, nan with fewer than 2 moments.
estimateAllSet(r, Vl) ==
    SetLast(r, [last_itr(r) EXCEPT
                    !.Vl_estimate = Vl,
                    !.stat_error = IF last_itr(r).moments < 2 THEN NaN
                                   ELSE estimateStatError(last_itr(r), Vl)])

estimateAllVl(r) ==
    IF r.pc = "raised" THEN r
    ELSE IF last_itr(r).lvls_count # r.sets[last_itr(r).lvls]
    THEN Raise(r, "Iteration does not use all levels!")
    ELSE IF last_itr(r).moments >= 2 /\ r.p.lsq_est /\ estimateBayesianVlRaises(r, 0, FALSE)
    THEN Raise(r, estimateBayesianVlError(r, 0))
    ELSE IF last_itr(r).moments >= 2 /\ ~r.p.lsq_est /\ calcElRaises(all_itr(r))
    THEN Raise(SetLast(r, [last_itr(r) EXCEPT
                                !.Vl_estimate = Fill(last_itr(r).lvls_count, NaN),
                                !.stat_error = NaN]),
               "IndexError")
    ELSE estimateAllBias(estimateAllSet(r,
            IF last_itr(r).moments < 2 THEN Fill(last_itr(r).lvls_count, NaN)
            ELSE IF r.p.lsq_est THEN estimateBayesianVl(r, 0) ELSE estimateVl(r)))

estimateAll(r0) == estimateAllVl(estimateQParams(r0))

(***************************************************************************)
(* Level extension, sampling, theta and the first usable level.            *)
(***************************************************************************)
\* The default minM of _calcTheoryM.
calcTheoryMinM == 1

\* The largest level the capped extension callback allows (miproj_max_lvl).
ExtMaxLvl == 1

\* extend_prof_lvls(run, profCalc, min_lvls): the new length of the level set;
\* expand_set adds the next level of the one-dimensional set.  Returns None.
extend_prof_lvls(r) ==
    LET it == last_itr(r)
        n  == r.sets[it.lvls]
    IN  IF QLt(it.bias, QMul(QSub(One, r.p.theta), it.TOL)) THEN [n |-> n, ret |-> "None"]
        ELSE IF n = 0
        THEN [n |-> IF r.p.min_lvl > 1 THEN r.p.min_lvl ELSE 1, ret |-> "None"]
        ELSE [n |-> IF r.p.min_lvl > n + 1 THEN r.p.min_lvl ELSE n + 1, ret |-> "None"]

\* MyRun.extendLvls with a profit calculator: one expand_set, then False when
\* the largest level exceeds miproj_max_lvl, else True.
extendLvls(r) ==
    LET n == r.sets[last_itr(r).lvls] + 1
    IN  [n |-> n, ret |-> IF n >= 1 /\ n - 1 > ExtMaxLvl THEN "False" ELSE "True"]

\* fn.ExtendLvls()
ExtendLvls(r) == IF r.p.ext = "prof" THEN extend_prof_lvls(r) ELSE extendLvls(r)

\* last_itr._levels_added(); all_itr._levels_added(), the set having n levels.
levelsAdded(r, n) ==
    SetLast(IF r.p.reuse_samples THEN r ELSE [r EXCEPT !.all = levels_added(@, n)],
            levels_added(last_itr(r), n))

\* update_ml2r_weights()
ml2rUpdated(r) == SetLast(r, update_ml2r_weights(last_itr(r), r.p.ml2r))

\* return np.maximum(self.last_itr.M, todoM)
returnTodoM(r, t) ==
    [r EXCEPT !.todoM = [i \in 1..Len(last_itr(r).M) |->
                            IF last_itr(r).M[i] > t THEN last_itr(r).M[i] ELSE t]]

\* _extendLevels(new_lvls=None); the value returned is left in r.todoM.  It is
\* np.maximum(last_itr.M, todoM), never None: True counts as 1, False as 0.
extendLevelsWith(r, e) ==
    returnTodoM(
        ml2rUpdated(levelsAdded([r EXCEPT !.sets[last_itr(r).lvls] = e.n, !.extRet = e.ret],
                                e.n)),
        IF e.ret = "None" THEN M0 ELSE IF e.ret = "True" THEN 1 ELSE 0)

extendLevels(r) == extendLevelsWith(r, ExtendLvls(r))

\* _extendLevels(new_lvls = [[lvls_count], ..., [L]]): the set then has L + 1 levels.
extendLevelsTo(r, L) ==
    returnTodoM(ml2rUpdated(levelsAdded([r EXCEPT !.sets[last_itr(r).lvls] = L + 1], L + 1)),
                M0)

\* _update_active_lvls on last_itr.
updateActive(r) ==
    SetLast(r, update_active_lvls(last_itr(r), r.cur_start_level, r.p.ml2r))

\* The counts _genSamples asks of SampleAll: the deficit of the levels that are
\* not inactive and lack samples, 0 elsewhere.
genRequest(it, totalM) ==
    [i \in 1..it.lvls_count |->
        IF totalM[i] > it.M[i] /\ it.active_lvls[i] >= 0 THEN totalM[i] - it.M[i] ELSE 0]

\* The loop of _genSamples over the levels 1..i with calcM > 0.
RECURSIVE addBatches(_, _, _)
addBatches(it, batches, i) ==
    IF i = 0 THEN it
    ELSE LET prev == addBatches(it, batches, i - 1)
         IN  IF batches[i].M <= 0 THEN prev ELSE addSamples(prev, i, batches[i])

\* The loop of addSamples run on all_itr too when all_itr is last_itr.
samplesAdded_Twice(r, b) ==
    SetLast(IF r.p.reuse_samples THEN r ELSE [r EXCEPT !.all = addBatches(@, b, Len(b))],
            addBatches(addBatches(last_itr(r), b, Len(b)), b, Len(b)))

\* The loop of addSamples on last_itr only.
samplesAdded_LastOnly(r, b) == SetLast(r, addBatches(last_itr(r), b, Len(b)))

\* The loop of addSamples on last_itr and, when it is another object, on all_itr.
samplesAdded(r, b) ==
    SetLast(IF r.p.reuse_samples THEN r ELSE [r EXCEPT !.all = addBatches(@, b, Len(b))],
            addBatches(last_itr(r), b, Len(b)))

\* `totalM = totalM.copy()` with the masking done on the caller's array.
genTotalM_InPlace(it, totalM) ==
    [caller |-> genRequest(it, totalM), local |-> genRequest(it, totalM)]

\* totalM = totalM.copy(): the name is bound to a new array, and lines 910-913
\* change that array; the caller keeps its own.
genTotalM(it, totalM) == [caller |-> totalM, local |-> genRequest(it, totalM)]

\* _genSamples from line 914 on, `batches` being what fn.SampleAll returns for
\* the request; the value returned is left in r.gen.
genSamplesWith(r, req, batches) ==
    IF SumInts(req) = 0 THEN [r EXCEPT !.gen = FALSE]
    ELSE estimateAll(samplesAdded([r EXCEPT !.gen = TRUE, !.calls = @ + 1,
                                            !.req = Append(@, req)],
                                  batches))

\* _genSamples(totalM) with the default sampling driver.
genSamplesOf(r, req) == genSamplesWith(r, req, SampleAll(req, last_itr(r).moments))

genSamples(r, totalM) ==
    IF last_itr(r).lvls_count # r.sets[last_itr(r).lvls]
    THEN Raise(r, "Iteration does not use all levels!")
    ELSE genSamplesOf(r, genRequest(last_itr(r), totalM))

\* _calcTheta(TOL, bias_est)
calcTheta(r, TOL, bias_est) ==
    IF ~r.p.const_theta
    THEN QMaximum(IF QLt(Zero, TOL) THEN QSub(One, QDiv(bias_est, TOL)) ELSE Inf, r.p.theta)
    ELSE r.p.theta

\* _check_levels that moves the first usable level past the last level.
check_levels_Unbounded(r) ==
    IF ~r.p.dynamic_first_lvl THEN r
    ELSE IF r.cur_start_level >= last_itr(r).lvls_count THEN r
    ELSE updateActive([r EXCEPT !.cur_start_level = @ + 1])

\* sqrt(W_Z V_Z) + sqrt(W_X V_X) > sqrt(W_Y V_Y) at the first usable level c.
firstLevelMoves(c, deltaWl, deltaVl, fineVl) ==
    QLt(QSqrt(QMul(QAbs(fineVl[c + 2]), deltaWl[c + 2])),
        QAdd(QSqrt(QMul(QAbs(deltaVl[c + 2]), deltaWl[c + 2])),
             QSqrt(QMul(QAbs(fineVl[c + 1]), deltaWl[c + 1]))))

\* _check_levels: with dynamic_first_lvl, the first usable level moves up by one
\* when sqrt(W_Z V_Z) + sqrt(W_X V_X) > sqrt(W_Y V_Y).
check_levels(r) ==
    IF ~r.p.dynamic_first_lvl THEN r
    ELSE IF r.cur_start_level >= last_itr(r).lvls_count - 1 THEN r
    ELSE IF calcElRaises(last_itr(r)) THEN Raise(r, "IndexError")
    ELSE IF firstLevelMoves(r.cur_start_level, calcWl(last_itr(r)),
                            calcVl(last_itr(r), TRUE),
                            calcFineCentralMoment(last_itr(r), 2, TRUE))
    THEN estimateAll(updateActive([r EXCEPT !.cur_start_level = @ + 1]))
    ELSE r

(***************************************************************************)
(* _estimateOptimalL.  Its calls pass masks of lvls_count entries for      *)
(* arrays of L + 1 > lvls_count entries: an IndexError from numpy 1.13 on, *)
(* before that the mask selects among the first lvls_count entries only.   *)
(***************************************************************************)
\* The entries past the mask are outside the masked sum and product: left 0.
tmShort(raw, n) == [i \in 1..Len(raw) |-> IF i <= n THEN raw[i] ELSE Zero]

\* _calcTheoryM with an active_lvls shorter than Vl, as numpy < 1.13 runs it.
calcTheoryM_short(TOL, theta, Vl, Wl, active_lvls, minM, ca) ==
    tmCeil(tmMaskInactive(
        tmFillNaN(tmClamp(
            tmShort(tmRaw(TOL, theta, Vl, Wl,
                          [i \in 1..Len(Vl) |-> i <= Len(active_lvls) /\ active_lvls[i] >= 0],
                          ca),
                    Len(active_lvls)),
            minM), minM),
        [i \in 1..Len(Vl) |-> ~(i <= Len(active_lvls) /\ active_lvls[i] < 0)]))

\* totalWork = np.sum(Wl * M) of the candidate L.
optimalLWorkOf(Wl, M) == QSum([i \in 1..Len(Wl) |-> QMul(Wl[i], QI(M[i]))])

optimalLM(r, TOL, L, Wl) ==
    calcTheoryM_short(TOL, calcTheta(r, TOL, estimateBayesianBias(r, L)),
                      estimateBayesianVl(r, L), Wl,
                      last_itr(r).active_lvls, calcTheoryMinM, Ca)

optimalLWl(L) == [i \in 1..(L + 1) |-> QI(WorkModel(i - 1))]

optimalLWork(r, TOL, L) == optimalLWorkOf(optimalLWl(L), optimalLM(r, TOL, L, optimalLWl(L)))

\* The loop of _estimateOptimalL from candidate L on, with the best so far.
RECURSIVE optimalLFrom(_, _, _, _, _)
RECURSIVE optimalLNext(_, _, _, _, _, _)
optimalLFrom(r, TOL, L, minL, minWork) ==
    IF L > last_itr(r).lvls_count + incL THEN minL
    ELSE IF QLe(TOL, estimateBayesianBias(r, L)) /\ L < last_itr(r).lvls_count + incL
    THEN optimalLFrom(r, TOL, L + 1, minL, minWork)
    ELSE optimalLNext(r, TOL, L, minL, minWork, optimalLWork(r, TOL, L))

\* The loop keeping the candidate it evaluated last, whatever its work.
optimalLNext_Last(r, TOL, L, minL, minWork, totalWork) ==
    optimalLFrom(r, TOL, L + 1, L, totalWork)

\* if totalWork < minWork: minL = L; minWork = totalWork
optimalLNext(r, TOL, L, minL, minWork, totalWork) ==
    IF QLt(totalWork, minWork) THEN optimalLFrom(r, TOL, L + 1, L, totalWork)
    ELSE optimalLFrom(r, TOL, L + 1, minL, minWork)

estimateOptimalLRaises(r, strict) ==
    \/ last_itr(r).lvls_count <= 1
    \/ estimateBayesianVlRaises(r, last_itr(r).lvls_count + incL, strict)

estimateOptimalLError(r) ==
    IF last_itr(r).lvls_count <= 1 THEN "Must have at least 2 levels" ELSE "IndexError"

estimateOptimalL(r, TOL) ==
    optimalLFrom(r, TOL, last_itr(r).lvls_count, last_itr(r).lvls_count, Inf)

(***************************************************************************)
(* MIMCRun.doRun, in steps: the tolerance check, then for each pass of the *)
(* inner loop its extension half, its allocation half and its end, then    *)
(* the step of the outer loop.                                             *)
(***************************************************************************)
\* all(x >= y for x, y in zip(TOLs, TOLs[1:]))
tolsDecreasing_Strict(TOLs) == \A i \in 1..(Len(TOLs) - 1) : QLt(TOLs[i + 1], TOLs[i])

tolsDecreasing(TOLs) == \A i \in 1..(Len(TOLs) - 1) : QLe(TOLs[i + 1], TOLs[i])

\* less(a, b, rel_tol=1e-09): a - b <= rel_tol * max(abs(a), abs(b)), for finite a, b.
less(a, b) ==
    LET d == QSub(a, b)
        m == IF QLt(QAbs(a), QAbs(b)) THEN QAbs(b) ELSE QAbs(a)
        q == QDiv(d, m)
    IN  \/ d[1] <= 0
        \/ m # Zero /\ q[1] <= q[2] \div 1000000000

\* is_itr_tol_satisfied()
is_itr_tol_satisfied(r) ==
    QLt(total_error_est(last_itr(r)), QMaximum(r.p.TOL, last_itr(r).TOL))

passBreaks_ItrDone(r) ==
    is_itr_tol_satisfied(r) \/ (r.add_new_iteration /\ ~r.p.lsq_est)

\* if self.params.lsq_est or self.is_itr_tol_satisfied(): break
passBreaks(r) == r.p.lsq_est \/ is_itr_tol_satisfied(r)

runStops_ErrorOnly(r) == QLe(total_error_est(last_itr(r)), r.p.TOL)

\* if less(TOL, finalTOL) and self.total_error_est <= finalTOL: break
runStops(r) ==
    less(r.p.TOLs[r.ti], r.p.TOL) /\ QLe(total_error_est(last_itr(r)), r.p.TOL)

\* doRun appending an iteration in every pass.
appendIteration_Always(r) ==
    IF Len(r.iters) = 0
    THEN [r EXCEPT !.sets = <<0>>, !.iters = <<NewItrData(1, 0, r.p.moments)>>,
                   !.Qs = <<[S |-> IF r.p.lsq_est THEN Inf ELSE NoneQ,
                             W |-> IF r.p.lsq_est THEN Inf ELSE NoneQ,
                             theta |-> r.p.theta]>>,
                   !.all = IF r.p.reuse_samples THEN @
                           ELSE next_itr(NewItrData(1, 0, r.p.moments))]
    ELSE [r EXCEPT !.iters = Append(@, next_itr(last_itr(r))), !.Qs = Append(@, lastQ(r))]

\* The head of the inner loop: the first iteration, or next_itr() of the last one
\* when add_new_iteration is set.
appendIteration(r) ==
    IF Len(r.iters) = 0
    THEN LET it == NewItrData(1, 0, r.p.moments)
             q  == IF r.p.lsq_est THEN [S |-> Inf, W |-> Inf, theta |-> r.p.theta]
                   ELSE [S |-> NoneQ, W |-> NoneQ, theta |-> r.p.theta]
         IN  [r EXCEPT !.sets = <<0>>, !.iters = <<it>>, !.Qs = <<q>>,
                       !.all = IF r.p.reuse_samples THEN @ ELSE next_itr(it)]
    ELSE IF r.add_new_iteration
    THEN [r EXCEPT !.iters = Append(@, next_itr(last_itr(r))), !.Qs = Append(@, lastQ(r))]
    ELSE r

passExtendEnd(r) ==
    IF r.pc = "raised" THEN r
    ELSE [r EXCEPT !.samples_added = r.gen \/ @, !.pc = "alloc"]

passExtendGen(r) == passExtendEnd(genSamples(r, r.todoM))

\* The non-Bayesian branch: _extendLevels() (whose result is never None, so the
\* break that follows it is never taken), _update_active_lvls, _genSamples.
passExtend(r) == passExtendGen(updateActive(extendLevels(r)))

passOptimalLEnd(r) == IF r.pc = "raised" THEN r ELSE [r EXCEPT !.pc = "alloc"]

passOptimalLWith(r, L) ==
    IF L > last_itr(r).lvls_count
    THEN passOptimalLEnd(estimateAll(updateActive(extendLevelsTo(r, L))))
    ELSE [r EXCEPT !.pc = "alloc"]

\* The Bayesian branch: _estimateOptimalL, then the new levels and estimates.
passOptimalL(r, strict) ==
    IF estimateOptimalLRaises(r, strict) THEN Raise(r, estimateOptimalLError(r))
    ELSE passOptimalLWith(r, estimateOptimalL(r, r.p.TOLs[r.ti]))

\* Lines 1035-1036 of a pass: add_new_iteration = False; last_itr.TOL = TOL.
passHead(r) ==
    SetLast([r EXCEPT !.add_new_iteration = FALSE, !.extRet = "n/a", !.req = <<>>,
                      !.passes = @ + 1],
            [last_itr(r) EXCEPT !.TOL = r.p.TOLs[r.ti]])

passBranch(r, strict) ==
    IF r.p.lsq_est /\ last_itr(r).lvls_count > 0 THEN passOptimalL(r, strict)
    ELSE passExtend(r)

\* Lines 1019-1065 of a pass.
passBegin(r, strict) == passBranch(passHead(appendIteration(r)), strict)

\* self.Q.theta = self._calcTheta(TOL, self.bias)
passTheta(r) ==
    [r EXCEPT !.Qs[Len(r.Qs)].theta = calcTheta(r, r.p.TOLs[r.ti], last_itr(r).bias)]

passAllocEnd(r, todoM) ==
    IF r.pc = "raised" THEN r
    ELSE [r EXCEPT !.samples_added = r.gen \/ @, !.todoM = todoM, !.pc = "endpass"]

passAllocGen(r, todoM) ==
    passAllocEnd(genSamples(IF r.p.reuse_samples THEN r
                            ELSE SetLast(r, zero_samples(last_itr(r))), todoM),
                 todoM)

passAllocM(r) ==
    IF r.pc = "raised" THEN r
    ELSE passAllocGen(r, calcTheoryM(r.p.TOLs[r.ti], lastQ(r).theta,
                                     last_itr(r).Vl_estimate, calcWl(last_itr(r)),
                                     last_itr(r).active_lvls, calcTheoryMinM, Ca))

\* Lines 1067-1083 of a pass.
passAlloc(r) == passAllocM(check_levels(passTheta(r)))

\* Lines 1086-1091: fn.ItrDone is read when samples were added (an attribute
\* that was never set raises AttributeError), then the break test.
passEnd(r) ==
    IF r.samples_added /\ r.p.ItrDone = "unset"
    THEN Raise(r, "Argument 'ItrDone' is required but not provided!")
    ELSE LET r1 == [r EXCEPT !.add_new_iteration =
                        IF r.samples_added /\ r.p.ItrDone \in {"True", "False"}
                        THEN r.p.ItrDone = "True" ELSE @]
         IN  [r1 EXCEPT !.pc = IF passBreaks(r1) THEN "outer" ELSE "pass"]

\* Lines 1094-1096 and the step of `for TOL in TOLs`.
outerStep(r) ==
    IF runStops(r) THEN [r EXCEPT !.pc = "returned"]
    ELSE IF r.ti < Len(r.p.TOLs)
    THEN [r EXCEPT !.add_new_iteration = TRUE, !.ti = @ + 1, !.samples_added = FALSE,
                   !.pc = "pass"]
    ELSE [r EXCEPT !.add_new_iteration = TRUE, !.pc = "returned"]

(***************************************************************************)
(* Specification SpecRun: doRun(TOLs) on a fresh MIMCRun, for each choice  *)
(* of the parameters and callbacks.                                        *)
(***************************************************************************)
RunTOLsChoices ==
    {<<Q(1, 2)>>, <<Q(1, 4), Q(1, 4)>>, <<Q(1, 4), Q(1, 2)>>,
     <<Q(1, 2), Q(1, 4), Q(1, 8)>>}

RunTOLChoices == {Q(1, 4), Q(1, 8)}

ItrDoneChoices == {"unset", "None", "True", "False"}

ExtChoices == {[ext |-> "prof", min_lvl |-> 1], [ext |-> "prof", min_lvl |-> 3],
               [ext |-> "cap", min_lvl |-> 3]}

NoItr == [lvls |-> 0]

\* A MIMCRun as MIMCRun(**kwargs) and setFunctions leave it, about to run doRun.
RunRecord(lsq, reuse, ct, dyn, idn, e, tols, tol) ==
    [pc |-> "call", err |-> "",
     p |-> [lsq_est |-> lsq, reuse_samples |-> reuse, const_theta |-> ct,
            dynamic_first_lvl |-> dyn, ml2r |-> FALSE, ItrDone |-> idn,
            ext |-> e.ext, min_lvl |-> e.min_lvl, moments |-> Moments,
            theta |-> Q(1, 2), TOLs |-> tols, TOL |-> tol],
     sets |-> <<>>, iters |-> <<>>, Qs |-> <<>>, all |-> NoItr,
     cur_start_level |-> 0, ti |-> 0,
     add_new_iteration |-> FALSE, samples_added |-> FALSE,
     gen |-> FALSE, todoM |-> <<>>, extRet |-> "n/a",
     calls |-> 0, req |-> <<>>, passes |-> 0]

\* No run object yet: the fields hold the defaults until RunNew sets them.
RunInit ==
    /\ run = [RunRecord(FALSE, TRUE, TRUE, FALSE, "None",
                        [ext |-> "prof", min_lvl |-> 3], <<Q(1, 4)>>, Q(1, 4))
                EXCEPT !.pc = "new"]
    /\ tm = Idle
    /\ itr = Idle
    /\ fn = Idle

\* MIMCRun(**kwargs), setFunctions(...) and the choice of the TOLs of doRun.
RunNew ==
    /\ run.pc = "new"
    /\ \E lsq \in BOOLEAN, reuse \in BOOLEAN, ct \in BOOLEAN, dyn \in BOOLEAN :
         \E idn \in ItrDoneChoices, e \in ExtChoices,
            tols \in RunTOLsChoices, tol \in RunTOLChoices :
           run' = RunRecord(lsq, reuse, ct, dyn, idn, e, tols, tol)
    /\ UNCHANGED <<tm, itr, fn>>

\* Lines 997-1014: the tolerances must be non-increasing.
RunStart ==
    /\ run.pc = "call"
    /\ run' = IF ~tolsDecreasing(run.p.TOLs) THEN Raise(run, "Tolerances must be decreasing")
              ELSE [run EXCEPT !.pc = "pass", !.ti = 1]
    /\ UNCHANGED <<tm, itr, fn>>

RunPassBegin ==
    /\ run.pc = "pass"
    /\ \E strict \in BOOLEAN : run' = passBegin(run, strict)
    /\ UNCHANGED <<tm, itr, fn>>

RunPassAlloc ==
    /\ run.pc = "alloc"
    /\ run' = passAlloc(run)
    /\ UNCHANGED <<tm, itr, fn>>

RunPassEnd ==
    /\ run.pc = "endpass"
    /\ run' = passEnd(run)
    /\ UNCHANGED <<tm, itr, fn>>

RunOuter ==
    /\ run.pc = "outer"
    /\ run' = outerStep(run)
    /\ UNCHANGED <<tm, itr, fn>>

RunNext ==
    \/ RunNew
    \/ RunStart
    \/ RunPassBegin
    \/ RunPassAlloc
    \/ RunPassEnd
    \/ RunOuter

SpecRun == RunInit /\ [][RunNext]_vars

\* The states in which doRun, or the construction before it, has a step to take:
\* each action is defined on every state of its pc and changes run.pc, so this
\* is ENABLED <<RunNext>>_vars.
RunActive == run.pc \in {"new", "call", "pass", "alloc", "endpass", "outer"}

\* doRun is one sequential call: a step that can be taken is taken.  This is
\* weak fairness of RunNext, WF_vars(RunNext), with its ENABLED written as RunActive.
RunFairness == []<>(~RunActive) \/ []<><<RunNext>>_vars

SpecRunFair == SpecRun /\ RunFairness

(***************************************************************************)
(* Properties of doRun.                                                    *)
(***************************************************************************)
\* The run of the end-to-end scenario: extend_prof_lvls, fixed theta, no
\* Bayesian fit, an ItrDone argument given to setFunctions (None included) and
\* tolerances that doRun accepts.
C1_Scenario ==
    /\ ~run.p.lsq_est
    /\ run.p.ext = "prof"
    /\ run.p.const_theta
    /\ run.p.theta = Q(1, 2)
    /\ run.p.ItrDone # "unset"
    /\ \A i \in 1..(Len(run.p.TOLs) - 1) : QLe(run.p.TOLs[i + 1], run.p.TOLs[i])

\* The first pass leaves a total error below its tolerance: the bias is inf on
\* one level and h(min_lvl - 1) on min_lvl >= 2 levels.
C1_FirstPassEnough ==
    /\ run.p.min_lvl >= 2
    /\ QLt(Hierarchy(run.p.min_lvl - 1), QMaximum(run.p.TOL, run.p.TOLs[1]))

\* C1 as stated: the end-to-end run returns after at least 2 refinement
\* iterations, whether these are IterationStates or passes of the inner loop.
C1_Original ==
    (C1_Scenario /\ run.pc = "returned") => (Len(run.iters) >= 2 \/ run.passes >= 2)

\* What every state of the end-to-end run shows: no error, a zero Vl_estimate at
\* every level of every iteration, and the bias h(L) = 2^-L of the last of
\* L + 1 >= 2 levels.
C1_Estimates ==
    C1_Scenario =>
        /\ run.pc # "raised"
        /\ \A k \in 1..Len(run.iters) :
             /\ \A i \in 1..run.iters[k].lvls_count : run.iters[k].Vl_estimate[i] = Zero
             /\ run.iters[k].lvls_count >= 2 /\ run.pc # "pass" =>
                    run.iters[k].bias = Hierarchy(run.iters[k].lvls_count - 1)

\* What the end-to-end run has done when it returns.
C1_AtReturn ==
    (C1_Scenario /\ run.pc = "returned") =>
        /\ Len(run.iters) >= 1
        /\ run.passes >= run.ti
        /\ run.p.ItrDone \in {"None", "False"} => Len(run.iters) = run.ti
        /\ run.passes >= 2 <=> (run.ti >= 2 \/ ~C1_FirstPassEnough)
        /\ last_itr(run).lvls_count >= 2

\* Each step of the end-to-end run that adds levels to a set of 2 or more
\* lowers the bias estimate.
C1_BiasDecreases ==
    (C1_Scenario /\ Len(run.iters) >= 1 /\ Len(run'.iters) >= 1
        /\ last_itr(run).lvls_count >= 2
        /\ last_itr(run').lvls_count > last_itr(run).lvls_count)
    => QLt(last_itr(run').bias, last_itr(run).bias) /\ QLt(Zero, last_itr(run').bias)

\* C1 (amended): the end-to-end noiseless run returns, possibly after a single
\* pass on a single IterationState (at least 2 passes exactly when a second
\* tolerance is processed or the first pass misses its tolerance); the bias
\* estimate is h(L) on L + 1 >= 2 levels, so it decreases towards 0 as levels are
\* added, and Vl_estimate is 0 at every level of every iteration.
C1_EndToEnd ==
    /\ [](C1_Estimates /\ C1_AtReturn)
    /\ [][C1_BiasDecreases]_vars
    /\ ((C1_Scenario /\ run.pc = "call") ~> run.pc = "returned")

C1_Witness ==
    /\ C1_Scenario
    /\ run.pc = "returned"
    /\ Len(run.iters) = 1
    /\ run.passes = 1
    /\ last_itr(run).lvls_count = 3
    /\ last_itr(run).bias = Q(1, 4)

\* bias + statisticalError < max(overall tolerance, iteration tolerance)
C2_TolMet ==
    QLt(total_error_est(last_itr(run)), QMaximum(run.p.TOL, last_itr(run).TOL))

\* C2 as stated: the inner loop stops after a pass exactly when the tolerance
\* test passes, or ItrDone asked for a new iteration with Bayesian mode off.
C2_Original ==
    [][(run.pc = "endpass" /\ run'.pc \in {"outer", "pass"}) =>
        (run'.pc = "outer" <=> (C2_TolMet \/ (run'.add_new_iteration /\ ~run.p.lsq_est)))]_vars

\* C2 (amended): the inner loop stops after a pass exactly when Bayesian mode is
\* on or the tolerance test passes; a true ItrDone only sets add_new_iteration
\* for the pass that follows, and an ItrDone never given to setFunctions raises
\* once samples were added.
C2_InnerLoopStop ==
    [][run.pc = "endpass" =>
        /\ run'.pc = "raised" <=> (run.samples_added /\ run.p.ItrDone = "unset")
        /\ run'.pc = "outer" <=>
             (~(run.samples_added /\ run.p.ItrDone = "unset")
                /\ (run.p.lsq_est \/ C2_TolMet))
        /\ run'.pc \in {"raised", "outer", "pass"}
        /\ run'.pc = "pass" =>
             (run'.add_new_iteration <=> (run.samples_added /\ run.p.ItrDone = "True"))
        /\ run'.iters = run.iters]_vars

\* ItrDone has asked for a new iteration with Bayesian mode off and the
\* tolerance test failing: the inner loop is about to run another pass.
C2_Witness ==
    /\ run.pc = "pass"
    /\ run.samples_added
    /\ run.add_new_iteration
    /\ run.p.ItrDone = "True"
    /\ ~run.p.lsq_est
    /\ ~C2_TolMet

\* total_error_est <= finalTOL
C3_ErrorWithinTarget == QLe(total_error_est(last_itr(run)), run.p.TOL)

\* C3 as stated: at the end of the inner loop of a tolerance that is not the
\* last, the run stops exactly when the total error is within the overall target.
C3_Original ==
    [][(run.pc = "outer" /\ run.ti < Len(run.p.TOLs)) =>
        (run'.pc = "returned" <=> C3_ErrorWithinTarget)]_vars

\* C3 (amended): at the end of the inner loop the run stops exactly when the
\* tolerances are used up, or the tolerance just processed is no larger than the
\* overall target (up to 1e-9 relative) and the total error is within the
\* target; otherwise the next tolerance follows, and its first pass appends one
\* iteration, next_itr() of the last, which shares its level set.
C3_OuterLoop ==
    [][/\ run.pc = "outer" =>
            /\ run'.pc = "returned" <=>
                 \/ run.ti = Len(run.p.TOLs)
                 \/ less(run.p.TOLs[run.ti], run.p.TOL) /\ C3_ErrorWithinTarget
            /\ run'.pc # "returned" =>
                 /\ run'.pc = "pass"
                 /\ run'.ti = run.ti + 1
                 /\ run'.add_new_iteration
                 /\ ~run'.samples_added
            /\ run'.iters = run.iters
       /\ (run.pc = "pass" /\ run.ti >= 2 /\ ~run.samples_added /\ run.add_new_iteration) =>
            /\ Len(run'.iters) = Len(run.iters) + 1
            /\ SubSeq(run'.iters, 1, Len(run.iters)) = run.iters
            /\ last_itr(run').lvls = last_itr(run).lvls
            /\ last_itr(run').TOL = run.p.TOLs[run.ti]
            /\ \A i \in 1..last_itr(run).lvls_count :
                 last_itr(run').M[i] >= (IF run.p.reuse_samples THEN last_itr(run).M[i] ELSE 0)]_vars

\* The total error is within the overall target at the end of the first
\* tolerance, and the run has gone on to the second on a fresh iteration.
C3_Witness ==
    /\ run.pc = "alloc"
    /\ run.ti = 2
    /\ run.passes = 2
    /\ Len(run.iters) = 2
    /\ QLe(total_error_est(run.iters[1]), run.p.TOL)
    /\ run.p.ItrDone \in {"None", "False"}

\* C4 as stated: in non-Bayesian mode, a pass in which ExtendLvls returned
\* False requests no samples.
C4_Original ==
    (~run.p.lsq_est /\ run.extRet = "False") => Len(run.req) = 0

\* Some TOLs[i] < TOLs[i+1].
C5_NotNonIncreasing ==
    \E i \in 1..(Len(run.p.TOLs) - 1) : QLt(run.p.TOLs[i], run.p.TOLs[i + 1])

\* C5: doRun with a tolerance sequence that is not non-increasing raises
\* "Tolerances must be decreasing" with no IterationState, no level and no call
\* of the sampling callback; a non-increasing sequence, equal neighbours
\* included, never raises that error.
C5_TolerancesChecked ==
    /\ (C5_NotNonIncreasing /\ run.pc \notin {"new", "call"}) =>
            /\ run.pc = "raised"
            /\ run.err = "Tolerances must be decreasing"
    /\ C5_NotNonIncreasing =>
            /\ Len(run.iters) = 0
            /\ Len(run.sets) = 0
            /\ run.calls = 0
            /\ run.passes = 0
    /\ ~C5_NotNonIncreasing =>
            /\ run.err # "Tolerances must be decreasing"
            /\ run.pc \notin {"new", "call"} => run.ti >= 1

C5_Witness ==
    /\ run.pc = "raised"
    /\ run.err = "Tolerances must be decreasing"
    /\ run.p.TOLs = <<Q(1, 4), Q(1, 2)>>
    /\ Len(run.iters) = 0
    /\ run.calls = 0

(***************************************************************************)
(* Module-level functions of mimc.py called on their own: the variable fn  *)
(* holds one call, its arguments and, once it has returned, its value.     *)
(***************************************************************************)
MaxDim == 3
MaxCoord == 2

\* seeds of expand_delta: [0] for a zero coordinate, [0, 1] otherwise.
expandSeeds(lvl) == [i \in 1..Len(lvl) |-> IF lvl[i] = 0 THEN <<0>> ELSE <<0, 1>>]

\* The number of tuples of itertools.product(*seeds[from..]).
RECURSIVE productSize(_, _)
productSize(seeds, from) ==
    IF from > Len(seeds) THEN 1 ELSE Len(seeds[from]) * productSize(seeds, from + 1)

\* The k-th tuple (0-based) of itertools.product(*seeds): the last
\* coordinate varies fastest.
productRow(seeds, k) ==
    [i \in 1..Len(seeds) |->
        seeds[i][((k \div productSize(seeds, i + 1)) % Len(seeds[i])) + 1]]

\* The row with the first factor read as 2 * (sum(lvl) % 2) - 1, the parity of
\* the level.
expandRow_LevelParity(lvl, ind) ==
    [mod |-> ((2 * (SumInts(lvl) % 2)) - 1) * (2 * (SumInts(ind) % 2) - 1),
     ind |-> [i \in 1..Len(lvl) |-> lvl[i] - ind[i]]]

\* expand_delta(lvl) for a multi-index lvl: the rows of (mods, lvl - inds).
\* In Python 2 * np.sum(lvl) % 2 - 1 is ((2 * sum) % 2) - 1.
expandRow(lvl, ind) ==
    [mod |-> (((2 * SumInts(lvl)) % 2) - 1) * (2 * (SumInts(ind) % 2) - 1),
     ind |-> [i \in 1..Len(lvl) |-> lvl[i] - ind[i]]]

expand_delta_lvl(lvl) ==
    [k \in 1..productSize(expandSeeds(lvl), 1) |->
        expandRow(lvl, productRow(expandSeeds(lvl), k - 1))]

ExpandLvlChoices == UNION {[1..d -> 0..MaxCoord] : d \in 1..MaxDim}

MaxWeightL == 3

\* The values of exp(-alpha) the weights are computed for: alpha = log(2),
\* log(3), log(3/2) and log(4).
ExpNegAlphaChoices == {Q(1, 2), Q(1, 3), Q(2, 3), Q(1, 4)}

MaxConstM == 3

\* The constant every sample of the level equals.
ConstChoices == {QI(-2), Q(-1, 2), Zero, One, Q(3, 2), QI(3)}

\* The power sums S_p = M * c**p, p = 1..moments, of M samples equal to c,
\* as the one-row array psums of a single level.
ConstPowerSums(M, c, moments) == <<[p \in 1..moments |-> QMul(QI(M), QPow(c, p))]>>

FnInit ==
    /\ \/ \E lvl \in ExpandLvlChoices :
            fn = [pc |-> "call", op |-> "expand_delta", lvl |-> lvl, ret |-> <<>>]
       \/ \E x \in ExpNegAlphaChoices, L \in 0..MaxWeightL :
            fn = [pc |-> "call", op |-> "calc_ml2r_weights", x |-> x, L |-> L, ret |-> <<>>]
       \/ \E M \in 1..MaxConstM, c \in ConstChoices :
            fn = [pc |-> "call", op |-> "compute_central_moment", M |-> <<M>>, c |-> c,
                  psums |-> ConstPowerSums(M, c, Moments), ret |-> <<>>]
    /\ tm = Idle
    /\ itr = Idle
    /\ run = Idle

FnExpandDelta ==
    /\ fn.pc = "call"
    /\ fn.op = "expand_delta"
    /\ fn' = [fn EXCEPT !.pc = "done", !.ret = expand_delta_lvl(fn.lvl)]
    /\ UNCHANGED <<tm, itr, run>>

FnMl2rWeights ==
    /\ fn.pc = "call"
    /\ fn.op = "calc_ml2r_weights"
    /\ fn' = [fn EXCEPT !.pc = "done", !.ret = calc_ml2r_weights(fn.x, fn.L)]
    /\ UNCHANGED <<tm, itr, run>>

\* compute_central_moment(psums, M, moment) for moment = 1..Moments.
FnCentralMoments ==
    /\ fn.pc = "call"
    /\ fn.op = "compute_central_moment"
    /\ fn' = [fn EXCEPT !.pc = "done",
                        !.ret = [m \in 1..Moments |->
                                    compute_central_moment(fn.psums, fn.M, m)[1]]]
    /\ UNCHANGED <<tm, itr, run>>

FnNext ==
    \/ FnExpandDelta
    \/ FnMl2rWeights
    \/ FnCentralMoments

SpecFn == FnInit /\ [][FnNext]_vars

(***************************************************************************)
(* C11                                                                     *)
(***************************************************************************)
C11_Returned == fn.pc = "done" /\ fn.op = "expand_delta"

\* The coordinates of lvl that are not zero.
C11_NonZero(lvl) == {i \in 1..Len(lvl) : lvl[i] # 0}

\* lvl with the coordinates in S decremented by one.
C11_Corner(lvl, S) == [i \in 1..Len(lvl) |-> IF i \in S THEN lvl[i] - 1 ELSE lvl[i]]

\* C11: for a multi-index level with k non-zero coordinates expand_delta
\* returns exactly 2^k rows, one for each subset S of the non-zero
\* coordinates: the corner is the level with the coordinates of S
\* decremented by one and its coefficient is (-1)^|S|; zero coordinates are
\* never decremented.  expand_delta([0]) is ([0], +1) alone and
\* expand_delta([2]) is ([2], +1) and ([1], -1).
C11_Corners ==
    C11_Returned =>
        /\ Len(fn.ret) = IntPow(2, Cardinality(C11_NonZero(fn.lvl)))
        /\ \A S \in SUBSET C11_NonZero(fn.lvl) :
             \E k \in 1..Len(fn.ret) :
                /\ fn.ret[k].ind = C11_Corner(fn.lvl, S)
                /\ fn.ret[k].mod = SignPow(Cardinality(S))
        /\ \A k \in 1..Len(fn.ret) :
             \E S \in SUBSET C11_NonZero(fn.lvl) :
                /\ fn.ret[k].ind = C11_Corner(fn.lvl, S)
                /\ fn.ret[k].mod = SignPow(Cardinality(S))
        /\ fn.lvl = <<0>> => fn.ret = <<[mod |-> 1, ind |-> <<0>>]>>
        /\ fn.lvl = <<2>> => fn.ret = <<[mod |-> 1, ind |-> <<2>>], [mod |-> -1, ind |-> <<1>>]>>

\* A level with a zero coordinate and two non-zero ones: four corners.
C11_Witness ==
    /\ C11_Returned
    /\ fn.lvl = <<2, 0, 1>>
    /\ Len(fn.ret) = 4
    /\ \E k \in 1..4 : fn.ret[k] = [mod |-> 1, ind |-> <<1, 0, 0>>]

(***************************************************************************)
(* C12                                                                     *)
(***************************************************************************)
C12_Returned == fn.pc = "done" /\ fn.op = "calc_ml2r_weights"

\* The claim as stated: the returned vector sums to 1.
C12_Original == C12_Returned => QSum(fn.ret) = One

\* C12: calc_ml2r_weights(alpha, L) returns, for every alpha > 0 and L >= 0,
\* L + 1 weights whose first entry is 1: entry i is the sum of w[i..L], the
\* reverse cumulative sum of weights w that sum to 1.  For L = 0 the result
\* is [1]; for alpha = log(2) and L = 1 it is [1, 2], which does not sum to 1.
C12_FirstWeightOne ==
    C12_Returned =>
        /\ Len(fn.ret) = fn.L + 1
        /\ fn.ret[1] = One
        /\ QSum([k \in 1..(fn.L + 1) |-> ml2rW(fn.x, fn.L, k - 1)]) = One
        /\ \A i \in 1..(fn.L + 1) :
             fn.ret[i] = QSum([k \in 1..(fn.L + 2 - i) |-> ml2rW(fn.x, fn.L, i + k - 2)])
        /\ fn.L = 0 => fn.ret = <<One>>
        /\ (fn.x = Q(1, 2) /\ fn.L = 1) => fn.ret = <<One, QI(2)>>

\* alpha = log(2), L = 1: w = [-1, 2] and the returned weights are [1, 2].
C12_Witness ==
    /\ C12_Returned
    /\ fn.x = Q(1, 2)
    /\ fn.L = 1
    /\ fn.ret = <<One, QI(2)>>

(***************************************************************************)
(* C13                                                                     *)
(***************************************************************************)
C13_Returned == fn.pc = "done" /\ fn.op = "compute_central_moment"

\* C13: when the power sums of a level are S_p = M * c**p with M >= 1 (every
\* sample equals c), the first moment computed from the sums is c and the
\* second central moment is 0, for every M and c.
C13_ConstantSamples ==
    C13_Returned =>
        /\ fn.M[1] >= 1
        /\ fn.psums[1] = [p \in 1..Moments |-> QMul(QI(fn.M[1]), QPow(fn.c, p))]
        /\ fn.ret[1] = fn.c
        /\ fn.ret[2] = Zero

\* Three samples equal to -1/2: the sums are -3/2 and 3/4.
C13_Witness ==
    /\ C13_Returned
    /\ fn.M = <<3>>
    /\ fn.c = Q(-1, 2)
    /\ fn.psums[1][1] = Q(-3, 2)
    /\ fn.psums[1][2] = Q(3, 4)
    /\ fn.ret[1] = Q(-1, 2)
    /\ fn.ret[2] = Zero

(***************************************************************************)
(* Specification SpecItrOps: the operations of SpecItr on one state,       *)
(* together with zero_samples, the round trip through copy and the         *)
(* estimators that read the state.  Specification SpecItrCopies: level     *)
(* additions, addSamples, zero_samples, copy and next_itr on up to MaxObjs *)
(* states that may share a level set.                                      *)
(***************************************************************************)
MaxObjs == 2

\* A copy that leaves the power sums of the new state None.
copy_NoSums(it, lvls, lvls_len) ==
    [NewItrData(lvls, lvls_len, it.moments) EXCEPT
        !.lvls_count = it.lvls_count,
        !.tT = it.tT, !.tW = it.tW, !.M = it.M,
        !.bias = it.bias, !.stat_error = it.stat_error, !.TOL = it.TOL,
        !.weights = it.weights, !.Vl_estimate = it.Vl_estimate,
        !.active_lvls = it.active_lvls]

\* MIMCItrData.copy(copy_lvls): a new MIMCItrData on the level set lvls (a copy
\* of self._lvls or self._lvls itself) of lvls_len levels, whose constructor
\* calls _levels_added(); then _lvls_count and every array are overwritten.
copy(it, lvls, lvls_len) ==
    [NewItrData(lvls, lvls_len, it.moments) EXCEPT
        !.lvls_count = it.lvls_count,
        !.has_delta = it.has_delta, !.has_fine = it.has_fine,
        !.psums_delta = it.psums_delta, !.psums_fine = it.psums_fine,
        !.tT = it.tT, !.tW = it.tW, !.M = it.M,
        !.bias = it.bias, !.stat_error = it.stat_error, !.TOL = it.TOL,
        !.weights = it.weights, !.Vl_estimate = it.Vl_estimate,
        !.active_lvls = it.active_lvls]

\* The arguments of addSamples that add no sample: M = 0 and sums of zeros.
ZeroBatch ==
    [M |-> 0, psums_delta |-> Fill(Moments, Zero), psums_fine |-> Fill(Moments, Zero),
     tT |-> 0, tW |-> 0]

\* copy(copy_lvls=True) or next_itr() of a state: the result is a new state.
ItrCopy ==
    /\ Len(itr.objs) < MaxObjs
    /\ \E k \in 1..Len(itr.objs), copy_lvls \in BOOLEAN :
         LET it == itr.objs[k]
         IN  itr' = IF copy_lvls
                    THEN [itr EXCEPT
                            !.sets = Append(@, itr.sets[it.lvls]),
                            !.objs = Append(@, copy(it, Len(itr.sets) + 1, itr.sets[it.lvls])),
                            !.ret = [op |-> "copy", k |-> k]]
                    ELSE [itr EXCEPT
                            !.objs = Append(@, copy(it, it.lvls, itr.sets[it.lvls])),
                            !.ret = [op |-> "next_itr", k |-> k]]
    /\ UNCHANGED <<tm, run, fn>>

\* Batches of four samples of either sign: delta values 3, 3, 0, 0 (mean 3/2,
\* variance 9/4) with fine values 4, 4, 0, 0 (mean 2, variance 4), or delta
\* values -4, -4, 0, 0 with fine values -3, -3, 0, 0.  The variances over M
\* are 9/16 and 1, whose sum 25/16 has an exact square root.
SignedBatchChoices ==
    {Batch(<<3, 3, 0, 0>>, <<4, 4, 0, 0>>, Moments),
     Batch(<<-4, -4, 0, 0>>, <<-3, -3, 0, 0>>, Moments)}

\* addSamples of a batch of either sign.
ItrAddSignedSamples ==
    /\ itr.adds < MaxBatches
    /\ \E k \in 1..Len(itr.objs) :
         \E l \in 1..itr.objs[k].lvls_count, b \in SignedBatchChoices :
             itr' = [itr EXCEPT !.objs[k] = addSamples(@, l, b), !.adds = @ + 1,
                                !.ret = NoRet]
    /\ UNCHANGED <<tm, run, fn>>

ItrZeroSamples ==
    /\ \E k \in 1..Len(itr.objs) :
         /\ SumInts(itr.objs[k].M) > 0
         /\ itr' = [itr EXCEPT !.objs[k] = zero_samples(@), !.ret = NoRet]
    /\ UNCHANGED <<tm, run, fn>>

\* clone = state.copy(copy_lvls=True); clone.addSamples(l, 0, zeros, zeros, 0, 0).
\* The clone is kept with the result of the call.
ItrCopyAddNone ==
    /\ \E k \in 1..Len(itr.objs) :
         \E l \in 1..itr.objs[k].lvls_count :
            itr' = [itr EXCEPT !.ret =
                      [op |-> "copy+addSamples", k |-> k, l |-> l,
                       clone |-> addSamples(copy(itr.objs[k], Len(itr.sets) + 1,
                                                 itr.sets[itr.objs[k].lvls]),
                                            l, ZeroBatch)]]
    /\ UNCHANGED <<tm, run, fn>>

\* A MIMCRun with Bayesian fitting as given, whose only iteration is the
\* state it and whose Q holds the initial values.
ItrRunOf(it, lsq) ==
    [RunRecord(lsq, TRUE, TRUE, FALSE, "None", [ext |-> "prof", min_lvl |-> 1],
               <<Q(1, 4)>>, Q(1, 4))
        EXCEPT !.sets = itr.sets, !.iters = <<it>>,
               !.Qs = <<[S |-> Inf, W |-> Inf, theta |-> Q(1, 2)]>>]

\* What a call on a run leaves: whether it raised, and the Q of the run.
ItrCallResult(op, k, r) ==
    [op |-> op, k |-> k, raised |-> r.pc = "raised", err |-> r.err, Q |-> lastQ(r)]

\* run._estimateQParams() with lsq_est set, the state being run.all_itr.
ItrEstimateQParams ==
    /\ \E k \in 1..Len(itr.objs) :
         itr' = [itr EXCEPT !.ret =
                    ItrCallResult("_estimateQParams", k,
                                  estimateQParams(ItrRunOf(itr.objs[k], TRUE)))]
    /\ UNCHANGED <<tm, run, fn>>

\* LevelSet.is_boundary() of the two-dimensional set [0, 0], [1, 0], [0, 1].
is_boundary_2d == <<FALSE, TRUE, TRUE>>

\* The masks is_boundary() can return for the levels of a state: that of the
\* one-dimensional set and, for three levels whose flags are as _levels_added
\* left them, that of the two-dimensional set.
BoundaryChoices(it) ==
    {is_boundary(it.lvls_count)} \cup
    (IF it.lvls_count = 3 /\ \A i \in 1..3 : it.active_lvls[i] = 1
     THEN {is_boundary_2d} ELSE {})

BiasCalcChoices == {"bnd", "abs-bnd"}

\* The exception fn.EstimateBias ends with, "" when it returns: calcEl may
\* raise; estimate_bias_abs_bnd then calls len() on the integer lvls_count;
\* get_lvls() raises for a state that has fallen behind its level set.
estimateBiasError(it, calc, set_len) ==
    IF calcElRaises(it) THEN "IndexError"
    ELSE IF calc = "abs-bnd" THEN "TypeError"
    ELSE IF it.lvls_count # set_len THEN "Iteration does not use all levels!"
    ELSE ""

ItrBiasResult(k, calc, bnd, err, val) ==
    [op |-> "EstimateBias", k |-> k, calc |-> calc, bnd |-> bnd, raised |-> err,
     val |-> IF err = "" THEN val ELSE NaN]

\* self.fn.EstimateBias() for bias_calc 'bnd' or 'abs-bnd', the state being
\* run.last_itr.
ItrEstimateBias ==
    /\ \E k \in 1..Len(itr.objs), calc \in BiasCalcChoices :
         \E bnd \in BoundaryChoices(itr.objs[k]) :
            itr' = [itr EXCEPT !.ret =
                      ItrBiasResult(k, calc, bnd,
                          estimateBiasError(itr.objs[k], calc, itr.sets[itr.objs[k].lvls]),
                          biasOfBoundaryOn(itr.objs[k], calcEl(itr.objs[k], 1, TRUE), bnd))]
    /\ UNCHANGED <<tm, run, fn>>

\* A rational whose square root QSqrt gives exactly.
SqrtExact(a) ==
    \/ ~IsFinite(a)
    \/ a[1] < 0
    \/ /\ \E n \in 0..a[1] : n * n = a[1]
       /\ \E d \in 1..a[2] : d * d = a[2]

\* The sum under the square root of _estimateAll has an exact root, or is not
\* evaluated because a level that is not inactive has no samples.
estimateAllExact(it, Vl) ==
    \/ \E i \in 1..it.lvls_count : it.active_lvls[i] >= 0 /\ it.M[i] = 0
    \/ SqrtExact(QSum(Masked([i \in 1..it.lvls_count |-> QDiv(Vl[i], QI(it.M[i]))],
                             [i \in 1..it.lvls_count |-> it.active_lvls[i] >= 0])))

\* What _estimateAll leaves: the exception, or the state with its estimates,
\* which is kept with the result of the call.
ItrEstimated(k, r) ==
    IF r.pc = "raised"
    THEN [itr EXCEPT !.ret = [op |-> "_estimateAll", k |-> k, raised |-> r.err,
                              it |-> itr.objs[k]]]
    ELSE [itr EXCEPT !.ret = [op |-> "_estimateAll", k |-> k, raised |-> "",
                              it |-> last_itr(r)]]

\* run._estimateAll() without Bayesian fitting, bias_calc 'bnd', the state
\* being run.last_itr; calcVl raises on a state with levels and no power sums.
ItrEstimateAll ==
    /\ \E k \in 1..Len(itr.objs) :
         IF calcElRaises(itr.objs[k])
         THEN itr' = [itr EXCEPT !.ret = [op |-> "_estimateAll", k |-> k,
                                          raised |-> "IndexError", it |-> itr.objs[k]]]
         ELSE /\ estimateAllExact(itr.objs[k], estimateVl(ItrRunOf(itr.objs[k], FALSE)))
              /\ itr' = ItrEstimated(k, estimateAll(ItrRunOf(itr.objs[k], FALSE)))
    /\ UNCHANGED <<tm, run, fn>>

ItrOpsNext ==
    \/ ItrAddLevel
    \/ ItrAddSignedSamples
    \/ ItrUpdateActive
    \/ ItrZeroSamples
    \/ ItrCopyAddNone
    \/ ItrEstimateQParams
    \/ ItrEstimateBias
    \/ ItrEstimateAll

SpecItrOps == ItrInit /\ [][ItrOpsNext]_vars

ItrCopiesNext ==
    \/ ItrAddLevel
    \/ ItrAddSamples
    \/ ItrZeroSamples
    \/ ItrCopy

SpecItrCopies == ItrInit /\ [][ItrCopiesNext]_vars

(***************************************************************************)
(* C14                                                                     *)
(***************************************************************************)
\* What calcEl(moment) gives on a state: its value, or the IndexError of the
\* masks when the state has levels and no power sums.
C14_CalcEl(it, moment) ==
    IF calcElRaises(it) THEN [raised |-> "IndexError", val |-> <<>>]
    ELSE [raised |-> "", val |-> calcEl(it, moment, TRUE)]

\* The derived estimates of a state: the stored bias, calcEl, calcVl and
\* Vl_estimate.
C14_Estimates(it) ==
    [bias |-> it.bias, El |-> C14_CalcEl(it, 1), Vl |-> C14_CalcEl(it, 2),
     Vl_estimate |-> it.Vl_estimate]

C14_RoundTripDone == itr.ret.op = "copy+addSamples"

C15_ShapesOf(it) ==
    /\ Len(it.M) = it.lvls_count
    /\ Len(it.tT) = it.lvls_count
    /\ Len(it.tW) = it.lvls_count
    /\ Len(it.active_lvls) = it.lvls_count
    /\ Len(it.weights) = it.lvls_count
    /\ it.has_delta => Len(it.psums_delta) = it.lvls_count
    /\ it.has_fine => Len(it.psums_fine) = it.lvls_count

C15_Shapes == \A k \in 1..Len(itr.objs) : C15_ShapesOf(itr.objs[k])

\* One operation: no state loses a level, the levels a state gains start with
\* M = 0, weight 1 and flag 1, and a state made by copy or next_itr has the
\* levels of its source.
C15_Step ==
    /\ \A k \in 1..Len(itr.objs) :
         /\ itr'.objs[k].lvls_count >= itr.objs[k].lvls_count
         /\ \A i \in (itr.objs[k].lvls_count + 1)..itr'.objs[k].lvls_count :
              /\ itr'.objs[k].M[i] = 0
              /\ itr'.objs[k].weights[i] = One
              /\ itr'.objs[k].active_lvls[i] = 1
    /\ \A k \in (Len(itr.objs) + 1)..Len(itr'.objs) :
         itr'.objs[k].lvls_count = itr.objs[itr'.ret.k].lvls_count

\* C15: after any sequence of level additions, addSamples, zero_samples, copy
\* and next_itr, lvls_count never decreases; M, tT, tW, active_lvls and weights
\* have exactly lvls_count entries; the power sums, when present, have exactly
\* lvls_count rows; and every newly added level starts with M = 0, weight 1
\* and active flag 1.
C15_LevelArrays == []C15_Shapes /\ [][C15_Step]_vars

\* Two states on one level set: the second was made by next_itr when the set
\* had two levels, and a third level was then added through the first.
C15_Witness ==
    /\ Len(itr.objs) = 2
    /\ itr.objs[1].lvls = itr.objs[2].lvls
    /\ itr.objs[1].lvls_count = 3
    /\ itr.objs[2].lvls_count = 2
    /\ itr.objs[1].has_delta
    /\ itr.objs[1].M[3] = 0
    /\ itr.objs[1].weights[3] = One
    /\ itr.objs[1].active_lvls[3] = 1

(***************************************************************************)
(* C16                                                                     *)
(***************************************************************************)
C16_Fitted == itr.ret.op = "_estimateQParams"

\* The levels of a state that have samples.
C16_Sampled(it) == {i \in 1..it.lvls_count : it.M[i] > 0}

\* The claim as stated: the fit raises whenever fewer than 2 levels have
\* samples.
C16_Original ==
    C16_Fitted =>
        (Cardinality(C16_Sampled(itr.objs[itr.ret.k])) < 2 => itr.ret.raised)

\* C16: with Bayesian fitting enabled _estimateQParams raises "Must have at
\* least 2 levels" exactly when the state has some sample and at most 2 levels
\* (L = lvls_count - 1 <= 1), however many of them are sampled.  With no
\* sample at all it returns and leaves Q as it was; with 3 or more levels it
\* fits without raising, and Q.W is NaN when no level other than the first
\* has samples.
C16_FitRaises ==
    C16_Fitted =>
        LET it == itr.objs[itr.ret.k]
        IN  /\ itr.ret.raised <=> (C16_Sampled(it) # {} /\ it.lvls_count <= 2)
            /\ itr.ret.raised => itr.ret.err = "Must have at least 2 levels"
            /\ C16_Sampled(it) = {} => itr.ret.Q = lastQ(ItrRunOf(it, TRUE))
            /\ (it.lvls_count >= 3 /\ C16_Sampled(it) = {1}) => IsNaN(itr.ret.Q.W)
            /\ (it.lvls_count >= 3 /\ C16_Sampled(it) \notin {{}, {1}}) =>
                    ~IsNaN(itr.ret.Q.W)

\* Three levels of which only the first has samples: no error, Q.W is NaN.
C16_Witness ==
    /\ C16_Fitted
    /\ itr.objs[itr.ret.k].lvls_count = 3
    /\ C16_Sampled(itr.objs[itr.ret.k]) = {1}
    /\ ~itr.ret.raised
    /\ IsNaN(itr.ret.Q.W)

(***************************************************************************)
(* C17                                                                     *)
(***************************************************************************)
C17_BndCalled == itr.ret.op = "EstimateBias" /\ itr.ret.calc = "bnd"

\* A boundary level without expectation (no samples, or inactive), or a base
\* level on the boundary.
C17_BoundaryUndefined ==
    \E i \in 1..itr.objs[itr.ret.k].lvls_count :
        /\ itr.ret.bnd[i]
        /\ \/ itr.objs[itr.ret.k].M[i] = 0
           \/ itr.objs[itr.ret.k].active_lvls[i] <= 0

\* C17: the boundary-bound strategy returns +inf, never NaN and never an
\* exception, whenever some boundary level has no defined expectation or is a
\* base level.
C17_Original ==
    (C17_BndCalled /\ C17_BoundaryUndefined) =>
        /\ itr.ret.raised = ""
        /\ itr.ret.val = Inf

\* The same for the calls that return: the value is +inf.
C17_NeverNaN ==
    (C17_BndCalled /\ C17_BoundaryUndefined /\ itr.ret.raised = "") => itr.ret.val = Inf

(***************************************************************************)
(* C18                                                                     *)
(***************************************************************************)
\* The boundary-bound strategy returned, and every boundary level is active
\* and has samples.
C18_AllDefined ==
    /\ itr.ret.op = "EstimateBias"
    /\ itr.ret.calc = "bnd"
    /\ itr.ret.raised = ""
    /\ \A i \in 1..itr.objs[itr.ret.k].lvls_count :
         itr.ret.bnd[i] => /\ itr.objs[itr.ret.k].active_lvls[i] = 1
                           /\ itr.objs[itr.ret.k].M[i] > 0

\* The expectations calcEl() of the state the strategy was called on.
C18_El == calcEl(itr.objs[itr.ret.k], 1, TRUE)

\* The claim as stated: the sum over the boundary of the norm of each
\* expectation.
C18_Original ==
    C18_AllDefined =>
        itr.ret.val = QSum(Masked([i \in 1..Len(C18_El) |-> QAbs(C18_El[i])], itr.ret.bnd))

\* C18: when all boundary levels are active with defined expectations, the
\* boundary-bound strategy returns the norm of the sum of the expectations of
\* the boundary levels, a finite value that is never above the sum of their
\* norms: expectations of opposite sign on different boundary levels cancel.
C18_NormOfSum ==
    C18_AllDefined =>
        /\ itr.ret.val = QAbs(QSum(Masked(C18_El, itr.ret.bnd)))
        /\ IsFinite(itr.ret.val)
        /\ QLe(itr.ret.val,
               QSum(Masked([i \in 1..Len(C18_El) |-> QAbs(C18_El[i])], itr.ret.bnd)))

\* Expectations 3/2 and -2 on the two boundary levels of the two-dimensional
\* set: the bias is 1/2, not 7/2.
C18_Witness ==
    /\ C18_AllDefined
    /\ itr.ret.bnd = is_boundary_2d
    /\ C18_El[2] = Q(3, 2)
    /\ C18_El[3] = QI(-2)
    /\ itr.ret.val = Q(1, 2)

(***************************************************************************)
(* C19                                                                     *)
(***************************************************************************)
C19_AbsBndCalled == itr.ret.op = "EstimateBias" /\ itr.ret.calc = "abs-bnd"

\* The value the strategy is specified to return: over the boundary, the norm of
\* the expectation for the levels with active flag >= 0 (+inf for a base
\* level, whose expectation is set to +inf, and for the other levels).
C19_SumOfNorms(it, bnd) ==
    QSum(Masked([i \in 1..it.lvls_count |->
                    IF it.active_lvls[i] > 0 THEN QAbs(calcEl(it, 1, TRUE)[i]) ELSE Inf],
                bnd))

\* C19: with bias_calc 'abs-bnd' the bias estimation completes without error
\* in every state and returns the sum over the boundary levels of the
\* norm-transformed expectations.
C19_Original ==
    C19_AbsBndCalled =>
        /\ itr.ret.raised = ""
        /\ itr.ret.val = C19_SumOfNorms(itr.objs[itr.ret.k], itr.ret.bnd)

(***************************************************************************)
(* C20                                                                     *)
(***************************************************************************)
\* _estimateAll returned, with at least 2 tracked moments.
C20_Estimated ==
    /\ itr.ret.op = "_estimateAll"
    /\ itr.ret.raised = ""
    /\ itr.ret.it.moments >= 2

\* Some level with active flag >= 0 has no samples.
C20_Unsampled(it) == \E l \in 1..it.lvls_count : it.active_lvls[l] >= 0 /\ it.M[l] = 0

\* Ca * sqrt(sum over the levels with active flag >= 0 of Vl_estimate[l] / M[l]).
C20_Formula(it) ==
    QMul(Ca, QSqrt(QSum(Masked(
        [l \in 1..it.lvls_count |-> QDiv(it.Vl_estimate[l], QI(it.M[l]))],
        [l \in 1..it.lvls_count |-> it.active_lvls[l] >= 0]))))

\* C20: after _estimateAll with at least 2 tracked moments the statistical
\* error of the last iteration is +inf if and only if some level with active
\* flag >= 0 has zero samples in it; otherwise it is
\* Ca * sqrt(sum over the levels with active flag >= 0 of Vl_estimate[l]/M[l]).
C20_StatError ==
    C20_Estimated =>
        /\ (itr.ret.it.stat_error = Inf) <=> C20_Unsampled(itr.ret.it)
        /\ ~C20_Unsampled(itr.ret.it) =>
                itr.ret.it.stat_error = C20_Formula(itr.ret.it)

\* Two sampled levels behind an inactive level without samples: the error is
\* 2 * sqrt(9/16 + 1) = 5/2.
C20_Witness ==
    /\ C20_Estimated
    /\ itr.ret.it.active_lvls = <<-1, 0, 1>>
    /\ itr.ret.it.M = <<0, 4, 4>>
    /\ itr.ret.it.stat_error = Q(5, 2)

\* A level that is not inactive has no samples: the error is +inf.
C20_WitnessInf ==
    /\ C20_Estimated
    /\ itr.ret.it.M = <<4, 0>>
    /\ itr.ret.it.active_lvls = <<0, 1>>
    /\ itr.ret.it.stat_error = Inf

(***************************************************************************)
(* Specification SpecGen: _genSamples called on a run that reuses its      *)
(* samples, for targets drawn from GenTargetChoices and a sampling         *)
(* callback that reports the requested count, more, less or nothing.  The  *)
(* samples are those of the noiseless sampling function.                   *)
(***************************************************************************)
GenTargetChoices(n) == {Fill(n, 0), Fill(n, 2), Fill(n, 3)}

GenModeChoices == {"exact", "more", "short", "none"}

\* calcM as the callback reports it for the request req.
genAchieved(req, mode) ==
    [i \in 1..Len(req) |->
        IF mode = "exact" THEN req[i]
        ELSE IF mode = "more" THEN req[i] + 1
        ELSE IF mode = "short" THEN req[i] - 1
        ELSE 0]

\* What fn.SampleAll returns when it reports the counts calcM: the sums, time
\* and work of calcM[i] samples where calcM[i] > 0.
SampleAllCounts(calcM, moments) ==
    [i \in 1..Len(calcM) |->
        IF calcM[i] <= 0 THEN [M |-> calcM[i]] ELSE SampleLvl(i - 1, calcM[i], moments)]

\* _genSamples(totalM) on the run r, a holding the caller's array and the copy.
genSamplesCall(r, a, calcM) ==
    IF last_itr(r).lvls_count # r.sets[last_itr(r).lvls]
    THEN Raise(r, "Iteration does not use all levels!")
    ELSE genSamplesWith(r, a.local, SampleAllCounts(calcM, last_itr(r).moments))

\* What the call leaves: the state, and with the result of the call the
\* argument, the caller's array, the request and the counts reported.
ItrGenDone(k, target, a, calcM, r) ==
    [itr EXCEPT !.objs[k] = last_itr(r),
                !.adds = IF r.calls > 0 THEN @ + 1 ELSE @,
                !.ret = [op |-> "_genSamples", k |-> k, arg |-> target,
                         totalM |-> a.caller, req |-> a.local,
                         invoked |-> r.calls > 0,
                         calcM |-> IF r.calls > 0 THEN calcM ELSE <<>>,
                         before |-> itr.objs[k], raised |-> r.err,
                         returned |-> r.gen]]

ItrGenWith(k, target, a, mode) ==
    ItrGenDone(k, target, a, genAchieved(a.local, mode),
               genSamplesCall(ItrRunOf(itr.objs[k], FALSE), a, genAchieved(a.local, mode)))

\* run._genSamples(totalM), the state being run.last_itr and run.all_itr.
ItrGenSamples ==
    /\ itr.adds < MaxBatches
    /\ \E k \in 1..Len(itr.objs), mode \in GenModeChoices :
         \E target \in GenTargetChoices(itr.objs[k].lvls_count) :
            itr' = ItrGenWith(k, target, genTotalM(itr.objs[k], target), mode)
    /\ UNCHANGED <<tm, run, fn>>

GenNext ==
    \/ ItrAddLevel
    \/ ItrUpdateActive
    \/ ItrGenSamples

SpecGen == ItrInit /\ [][GenNext]_vars

(***************************************************************************)
(* C21                                                                     *)
(***************************************************************************)
C21_Called == itr.ret.op = "_genSamples" /\ itr.ret.raised # "Iteration does not use all levels!"

C21_Levels == 1..itr.ret.before.lvls_count

\* C21: the count _genSamples asks of the sampling callback at a level is
\* target - current when the level's active flag is >= 0 and target > current,
\* and 0 otherwise: never negative, 0 at inactive levels.  The caller's target
\* vector is as it was.  The callback is invoked exactly when some level has a
\* deficit, and when none has the state is left unchanged.
C21_Requests ==
    C21_Called =>
        /\ Len(itr.ret.req) = itr.ret.before.lvls_count
        /\ \A i \in C21_Levels :
             /\ itr.ret.req[i] =
                  IF itr.ret.before.active_lvls[i] >= 0
                     /\ itr.ret.arg[i] > itr.ret.before.M[i]
                  THEN itr.ret.arg[i] - itr.ret.before.M[i] ELSE 0
             /\ itr.ret.req[i] >= 0
             /\ itr.ret.before.active_lvls[i] < 0 => itr.ret.req[i] = 0
        /\ itr.ret.totalM = itr.ret.arg
        /\ itr.ret.invoked <=> \E i \in C21_Levels : itr.ret.req[i] > 0
        /\ ~itr.ret.invoked =>
             /\ itr.objs[itr.ret.k] = itr.ret.before
             /\ ~itr.ret.returned

\* A target of 3 on a state with 2 samples on an inactive level and 2 on the
\* base level: only the base level is asked for, one sample.
C21_Witness ==
    /\ C21_Called
    /\ itr.ret.before.active_lvls = <<-1, 0>>
    /\ itr.ret.before.M = <<2, 2>>
    /\ itr.ret.arg = <<3, 3>>
    /\ itr.ret.req = <<0, 1>>
    /\ itr.ret.invoked

\* No level has a deficit: the callback is not invoked.
C21_WitnessNoDeficit ==
    /\ C21_Called
    /\ itr.ret.arg = <<2, 2>>
    /\ itr.ret.before.M = <<3, 3>>
    /\ ~itr.ret.invoked

(***************************************************************************)
(* C22                                                                     *)
(***************************************************************************)
\* A run without sample reuse that has its first iteration.
C22_Separate(r) == ~r.p.reuse_samples /\ Len(r.iters) > 0

\* M[l] of a state, 0 for a level the state does not have yet.
C22_M(it, l) == IF l <= Len(it.M) THEN it.M[l] ELSE 0

C22_Accumulated ==
    C22_Separate(run) =>
        /\ run.all.lvls_count = last_itr(run).lvls_count
        /\ run.all.lvls = last_itr(run).lvls
        /\ \A l \in 1..last_itr(run).lvls_count : run.all.M[l] >= last_itr(run).M[l]

\* What a step adds to the accumulator at each level is what it adds to the
\* reporting iteration, which the allocation half of a pass first resets.
C22_Step ==
    C22_Separate(run) /\ C22_Separate(run') =>
        \A l \in 1..last_itr(run').lvls_count :
            run'.all.M[l] - C22_M(run.all, l) =
                last_itr(run').M[l]
                - (IF run.pc = "alloc" THEN 0 ELSE C22_M(last_itr(run), l))

\* C22: without sample reuse the accumulator is a state of its own with the
\* level count of the reporting iteration; every step of doRun adds to it the
\* samples it adds to the reporting iteration, which alone is reset, so the
\* accumulator's sample count is at least the reporting iteration's at every
\* level.
C22_Lockstep == []C22_Accumulated /\ [][C22_Step]_vars

\* After a reset the accumulator holds more samples than the reporting
\* iteration on two levels.
C22_Witness ==
    /\ C22_Separate(run)
    /\ last_itr(run).lvls_count >= 2
    /\ run.pc = "endpass"
    /\ \A l \in 1..2 : /\ last_itr(run).M[l] > 0
                       /\ run.all.M[l] > last_itr(run).M[l]

(***************************************************************************)
(* C23                                                                     *)
(***************************************************************************)
\* The pass has recomputed the active flags of a run without sample reuse.
C23_Recomputed ==
    /\ C22_Separate(run)
    /\ run.pc \in {"alloc", "endpass"}
    /\ last_itr(run).lvls_count > 0

\* The variance of the accumulator's samples at level i with the estimator the
\* flag f selects: the fine one at a base level, the difference one above it.
C23_Variance(i, f) ==
    IF f = 0 THEN calcFineCentralMoment(run.all, 2, TRUE)[i]
    ELSE calcDeltaCentralMoment(run.all, 2, TRUE)[i]

\* C23, as stated: after the active flags are recomputed the accumulator's
\* flags equal the reporting iteration's, and the variance estimate is the fine
\* estimator of the accumulator at the reporting iteration's base levels,
\* undefined at its inactive levels.
C23_Original ==
    C23_Recomputed =>
        /\ run.all.active_lvls = last_itr(run).active_lvls
        /\ ~run.p.lsq_est /\ run.gen =>
             \A i \in 1..last_itr(run).lvls_count :
                last_itr(run).Vl_estimate[i] =
                    IF last_itr(run).active_lvls[i] < 0 THEN NaN
                    ELSE QAbs(C23_Variance(i, last_itr(run).active_lvls[i]))

\* What the code keeps: the accumulator's flags are those _levels_added gave.
C23_AccumulatorAllActive ==
    C23_Recomputed => \A i \in 1..run.all.lvls_count : run.all.active_lvls[i] = 1

(***************************************************************************)
(* Specification SpecOptL: doRun of a Bayesian run on two or three         *)
(* tolerances of which the later ones range from loose to tight, so that   *)
(* the search window of _estimateOptimalL holds candidates of either kind. *)
(***************************************************************************)
OptTOLsChoices ==
    {<<Q(1, 2), Q(1, 4)>>, <<Q(1, 2), Q(1, 8)>>, <<Q(1, 2), Q(1, 16)>>,
     <<Q(1, 2), Q(1, 32)>>, <<Q(1, 2), Q(1, 64)>>, <<Q(1, 2), Q(1, 256)>>,
     <<Q(1, 2), Q(1, 8), Q(1, 64)>>, <<Q(1, 2), Q(1, 16), Q(1, 256)>>}

\* MIMCRun(bayesian=True, ...), setFunctions(...) and the TOLs of doRun.
OptNew ==
    /\ run.pc = "new"
    /\ \E reuse \in BOOLEAN, ct \in BOOLEAN, tols \in OptTOLsChoices :
           run' = RunRecord(TRUE, reuse, ct, FALSE, "None",
                            [ext |-> "prof", min_lvl |-> 3], tols, tols[Len(tols)])
    /\ UNCHANGED <<tm, itr, fn>>

OptNext ==
    \/ OptNew
    \/ RunStart
    \/ RunPassBegin
    \/ RunPassAlloc
    \/ RunPassEnd
    \/ RunOuter

SpecOptL == RunInit /\ [][OptNext]_vars

(***************************************************************************)
(* C24                                                                     *)
(***************************************************************************)
\* The run as _estimateOptimalL finds it in a pass that is about to begin.
C24_Run == passHead(appendIteration(run))

C24_TOL == run.p.TOLs[run.ti]

\* A pass of a Bayesian run with levels is about to begin, and the calls of
\* _estimateOptimalL do not raise.
C24_Calls ==
    /\ run.pc = "pass"
    /\ run.p.lsq_est
    /\ Len(run.iters) > 0
    /\ last_itr(run).lvls_count > 0
    /\ ~estimateOptimalLRaises(C24_Run, FALSE)

C24_Window == last_itr(run).lvls_count..(last_itr(run).lvls_count + incL)

\* The candidates whose projected work is compared: those whose Bayesian bias
\* estimate is not >= TOL, and the last one of the window.
C24_Compared ==
    {L \in C24_Window :
        \/ ~QLe(C24_TOL, estimateBayesianBias(C24_Run, L))
        \/ L = last_itr(run).lvls_count + incL}

C24_Below == {L \in C24_Window : QLt(estimateBayesianBias(C24_Run, L), C24_TOL)}

\* The L the step returned, read from the levels the pass added.
C24_Returned ==
    IF last_itr(run').lvls_count > last_itr(run).lvls_count
    THEN last_itr(run').lvls_count - 1 ELSE last_itr(run).lvls_count

MaxLvlBatches == 3

LvlBatch(ds, fs) == [Batch(ds, fs, Moments) EXCEPT !.tW = Len(ds)]

\* Four samples with delta values 3, 3, 0, 0 (variance 9/4) and fine values
\* 4, 4, 0, 0 (variance 4), or four constant samples (variance 0).
LvlBatchChoices ==
    {LvlBatch(<<3, 3, 0, 0>>, <<4, 4, 0, 0>>), LvlBatch(<<1, 1, 1, 1>>, <<2, 2, 2, 2>>)}

\* doRun has appended the first iteration.
LvlInit ==
    /\ \E dyn \in BOOLEAN, reuse \in BOOLEAN :
         run = [appendIteration(RunRecord(FALSE, reuse, TRUE, dyn, "None",
                                          [ext |-> "prof", min_lvl |-> 1],
                                          <<Q(1, 4)>>, Q(1, 4)))
                  EXCEPT !.pc = "steps"]
    /\ tm = Idle
    /\ itr = Idle
    /\ fn = Idle

\* _extendLevels(new_lvls = [[n]]) for the next level [n]; _update_active_lvls().
LvlExtend ==
    /\ run.pc = "steps"
    /\ run.sets[last_itr(run).lvls] < MaxItrLvls
    /\ run' = updateActive(extendLevelsTo(run, run.sets[last_itr(run).lvls]))
    /\ UNCHANGED <<tm, itr, fn>>

\* The loop of _genSamples for a callback that returns one batch, at level l.
LvlSample ==
    /\ run.pc = "steps"
    /\ run.calls < MaxLvlBatches
    /\ \E l \in 1..last_itr(run).lvls_count, b \in LvlBatchChoices :
         run' = [samplesAdded(run, [i \in 1..last_itr(run).lvls_count |->
                                       IF i = l THEN b ELSE [M |-> 0]])
                   EXCEPT !.calls = @ + 1]
    /\ UNCHANGED <<tm, itr, fn>>

checkRootsExact(c, deltaWl, deltaVl, fineVl) ==
    /\ SqrtExact(QMul(QAbs(fineVl[c + 2]), deltaWl[c + 2]))
    /\ SqrtExact(QMul(QAbs(deltaVl[c + 2]), deltaWl[c + 2]))
    /\ SqrtExact(QMul(QAbs(fineVl[c + 1]), deltaWl[c + 1]))

checkMovedExact(m) ==
    IF calcElRaises(all_itr(m)) THEN TRUE
    ELSE estimateAllExact(last_itr(m), estimateVl(m))

checkMovesExact(r, deltaWl, deltaVl, fineVl) ==
    IF ~checkRootsExact(r.cur_start_level, deltaWl, deltaVl, fineVl) THEN FALSE
    ELSE IF ~firstLevelMoves(r.cur_start_level, deltaWl, deltaVl, fineVl) THEN TRUE
    ELSE checkMovedExact(updateActive([r EXCEPT !.cur_start_level = @ + 1]))

\* The square roots that _check_levels takes on r are rationals.
checkLevelsExact(r) ==
    IF ~r.p.dynamic_first_lvl THEN TRUE
    ELSE IF r.cur_start_level >= last_itr(r).lvls_count - 1 THEN TRUE
    ELSE IF calcElRaises(last_itr(r)) THEN TRUE
    ELSE checkMovesExact(r, calcWl(last_itr(r)), calcVl(last_itr(r), TRUE),
                         calcFineCentralMoment(last_itr(r), 2, TRUE))

\* _check_levels()
LvlCheck ==
    /\ run.pc = "steps"
    /\ checkLevelsExact(run)
    /\ run' = check_levels(run)
    /\ UNCHANGED <<tm, itr, fn>>

LvlNext ==
    \/ LvlExtend
    \/ LvlSample
    \/ LvlCheck

SpecLevels == LvlInit /\ [][LvlNext]_vars

(***************************************************************************)
(* C25: after _update_active_lvls the flag vector of the last iteration    *)
(* has one entry per level of the level set, and the entry of the level    *)
(* with first coordinate x is 1 when x > cur_start_level, 0 when           *)
(* x = cur_start_level and -1 when x < cur_start_level.  The levels of the *)
(* model are [0], [1], ...: entry i belongs to the level [i - 1].  In      *)
(* SpecLevels every step that adds a level or moves cur_start_level ends   *)
(* with _update_active_lvls, so the flags are the recomputed ones in every *)
(* state.                                                                  *)
(***************************************************************************)
C25_Flag(x, s) == IF x > s THEN 1 ELSE IF x = s THEN 0 ELSE -1

C25_ActiveFlags ==
    /\ Len(last_itr(run).active_lvls) = run.sets[last_itr(run).lvls]
    /\ \A i \in 1..run.sets[last_itr(run).lvls] :
         last_itr(run).active_lvls[i] = C25_Flag(i - 1, run.cur_start_level)

C25_Witness ==
    /\ run.cur_start_level = 1
    /\ last_itr(run).active_lvls = <<-1, 0, 1>>

(***************************************************************************)
(* C27: cur_start_level never decreases, a step raises it by at most one,  *)
(* once the level set has a level it is at most lvls_count - 1 and some    *)
(* level of the last iteration has a flag >= 0, and without                *)
(* dynamic_first_lvl it is 0 in every state.                               *)
(***************************************************************************)
C27_Bounded ==
    /\ run.cur_start_level >= 0
    /\ last_itr(run).lvls_count >= 1 =>
         /\ run.cur_start_level <= last_itr(run).lvls_count - 1
         /\ \E i \in 1..last_itr(run).lvls_count : last_itr(run).active_lvls[i] >= 0
    /\ ~run.p.dynamic_first_lvl => run.cur_start_level = 0

C27_Step ==
    /\ run'.cur_start_level >= run.cur_start_level
    /\ run'.cur_start_level <= run.cur_start_level + 1

C27_Marker == []C27_Bounded /\ [][C27_Step]_vars

C27_Witness ==
    /\ run.p.dynamic_first_lvl
    /\ run.cur_start_level = 2
    /\ last_itr(run).lvls_count = 3
    /\ last_itr(run).active_lvls = <<-1, -1, 0>>

(***************************************************************************)
(* Specification SpecSample: default_sample_all and                        *)
(* default_sample_all_sums, one step per pass of the `for` loop over the   *)
(* levels and one per pass of the `while` loop that calls the sampler.     *)
(* An entry of psums_delta or psums_fine is None, an _empty_obj or an      *)
(* array; `alias[i]` tells that psums_delta[i] is the very array that      *)
(* psums_fine[i] is.  The sampler of a run returns 1..MaxRet samples per   *)
(* call, or none in any call (`zero`); every sample has the difference 1   *)
(* and the fine value 2, takes the time 1 and costs the work 3.  The       *)
(* fields exp_* add up what the sampler returned, call by call.            *)
(***************************************************************************)
SampleLvls == 2

MaxRequest == 3

MaxRet == 2

NoneObj == [k |-> "None", v |-> <<>>]

EmptyObj == [k |-> "_empty_obj", v |-> <<>>]

NdArray(v) == [k |-> "ndarray", v |-> v]

\* _empty_obj() + newarr is newarr itself; array += newarr adds in place.
IAdd(obj, v) ==
    IF obj.k = "ndarray" THEN NdArray([p \in 1..Len(v) |-> obj.v[p] + v[p]])
    ELSE NdArray(v)

\* The power sums of n samples of value x.
SamplePsums(x, n) == [p \in 1..Moments |-> n * IntPow(x, p)]

\* psums_delta[i] as the caller reads it.
SampleDelta(f, i) == IF f.alias[i] THEN f.psums_fine[i] ELSE f.psums_delta[i]

SampleNew(sums, wm, zero, M) ==
    [pc |-> "for", sums |-> sums, wm |-> wm, zero |-> zero, M |-> M, i |-> 1,
     calcM |-> Fill(Len(M), 0),
     psums_delta |-> Fill(Len(M), NoneObj), psums_fine |-> Fill(Len(M), NoneObj),
     alias |-> Fill(Len(M), FALSE),
     total_time |-> Fill(Len(M), 0), total_work |-> Fill(Len(M), 0),
     called |-> Fill(Len(M), FALSE), asked |-> 0, before |-> 0,
     exp_delta |-> Fill(Len(M), SamplePsums(0, 0)),
     exp_fine |-> Fill(Len(M), SamplePsums(0, 0)),
     exp_time |-> Fill(Len(M), 0), exp_work |-> Fill(Len(M), 0)]

\* SampleLvl is given with or without WorkModel; SampleLvlSums is given.
SampleInit ==
    /\ \E sums \in BOOLEAN, wm \in BOOLEAN, zero \in BOOLEAN,
          M \in [1..SampleLvls -> -1..MaxRequest] :
         /\ sums => ~wm
         /\ fn = SampleNew(sums, wm, zero, M)
    /\ tm = Idle
    /\ itr = Idle
    /\ run = Idle

\* for i in range(0, lvls_count): `continue` when M[i] <= 0, else the level's
\* entries are reset; the function returns after the last level.
sampleFor(f) ==
    IF f.i > Len(f.M) THEN [f EXCEPT !.pc = "done"]
    ELSE IF f.M[f.i] <= 0 THEN [f EXCEPT !.i = @ + 1]
    ELSE [f EXCEPT !.pc = "while", !.calcM[f.i] = 0, !.total_time[f.i] = 0,
                   !.total_work[f.i] = 0, !.psums_delta[f.i] = EmptyObj,
                   !.psums_fine[f.i] = EmptyObj]

\* What the calls of the sampler add up to, whatever the driver does with it.
sampleExpected(f, n, d, time, work) ==
    [f EXCEPT !.called[f.i] = TRUE, !.asked = f.M[f.i] - f.calcM[f.i],
              !.before = f.calcM[f.i],
              !.exp_delta[f.i] = [p \in 1..Moments |-> @[p] + d[p]],
              !.exp_fine[f.i] = [p \in 1..Moments |-> @[p] + SamplePsums(2, n)[p]],
              !.exp_time[f.i] = @ + time, !.exp_work[f.i] = @ + work]

\* The body of the `while` of default_sample_all for n returned samples, the
\* tuple returned having two entries (short) or three.
sampleValues(f, n, short) ==
    IF short /\ ~f.wm THEN [f EXCEPT !.pc = "raised"]
    ELSE [f EXCEPT !.total_time[f.i] = @ + n,
                   !.total_work[f.i] = @ + (IF short THEN WorkModel(f.i - 1) * n ELSE 3 * n),
                   !.psums_delta[f.i] = IAdd(@, SamplePsums(1, n)),
                   !.psums_fine[f.i] = IAdd(@, SamplePsums(2, n)),
                   !.calcM[f.i] = @ + n]

\* psums_delta[i] += x in default_sample_all_sums, x being cur_fsums when
\* cur_diffsums is None: on an _empty_obj the entry becomes the array x, which
\* is the array of psums_fine[i] when x is cur_fsums; on an array the addition
\* is in place, on the array psums_fine[i] when the two entries are one array.
sampleSumsDelta(f, x, isFine) ==
    IF f.psums_delta[f.i].k = "_empty_obj" /\ ~f.alias[f.i]
    THEN IF isFine THEN [f EXCEPT !.alias[f.i] = TRUE, !.psums_delta[f.i] = NoneObj]
         ELSE [f EXCEPT !.psums_delta[f.i] = NdArray(x)]
    ELSE IF f.alias[f.i] THEN [f EXCEPT !.psums_fine[f.i] = IAdd(@, x)]
    ELSE [f EXCEPT !.psums_delta[f.i] = IAdd(@, x)]

\* The body of the `while` of default_sample_all_sums for cur_M = n.
sampleSums(f, n, none) ==
    [sampleSumsDelta([f EXCEPT !.total_work[f.i] = @ + 3 * n,
                               !.total_time[f.i] = @ + n,
                               !.psums_fine[f.i] = IAdd(@, SamplePsums(2, n))],
                     IF none THEN SamplePsums(2, n) ELSE SamplePsums(1, n), none)
       EXCEPT !.calcM[f.i] = @ + n]

\* One pass of `for`.
SampleFor ==
    /\ fn.pc = "for"
    /\ fn' = sampleFor(fn)
    /\ UNCHANGED <<tm, itr, run>>

\* One pass of `while calcM[i] < M[i]`: a call of the sampler with
\* M = M[i] - calcM[i], or the end of the loop.
SampleWhile ==
    /\ fn.pc = "while"
    /\ IF fn.calcM[fn.i] >= fn.M[fn.i]
       THEN fn' = [fn EXCEPT !.pc = "for", !.i = @ + 1]
       ELSE \E n \in (IF fn.zero THEN {0} ELSE 1..MaxRet), b \in BOOLEAN :
              fn' = IF fn.sums
                    THEN sampleSums(sampleExpected(fn, n, IF b THEN SamplePsums(2, n)
                                                          ELSE SamplePsums(1, n),
                                                   n, 3 * n),
                                    n, b)
                    ELSE sampleValues(sampleExpected(fn, n, SamplePsums(1, n), n,
                                                     IF b THEN WorkModel(fn.i - 1) * n
                                                     ELSE 3 * n),
                                      n, b)
    /\ UNCHANGED <<tm, itr, run>>

SampleNext ==
    \/ SampleFor
    \/ SampleWhile

SpecSample == SampleInit /\ [][SampleNext]_vars

\* The loops go on while a step changes the state.
SpecSampleFair == SpecSample /\ WF_vars(SampleNext)

(***************************************************************************)
(* C26: for every level with M[i] > 0 the drivers call the sampler with    *)
(* M = M[i] - calcM[i] while calcM[i] < M[i], what they return for the     *)
(* level is the sum over the calls of the power sums, the time and the     *)
(* work, a level they have left has calcM[i] >= M[i], and a level with     *)
(* M[i] <= 0 is never sampled and has calcM[i] = 0.  With a sampler that   *)
(* returns a sample or more per call the loops end.                        *)
(***************************************************************************)
C26_Levels == 1..Len(fn.M)

\* The last call asked for the deficit, and was made on a deficit.
C26_Asked ==
    fn.pc = "while" /\ fn.called[fn.i] =>
        /\ fn.before < fn.M[fn.i]
        /\ fn.asked = fn.M[fn.i] - fn.before

C26_Skipped ==
    \A i \in C26_Levels :
        fn.M[i] <= 0 => ~fn.called[i] /\ fn.calcM[i] = 0 /\ fn.psums_fine[i] = NoneObj

C26_Stopped ==
    \A i \in C26_Levels :
        fn.M[i] > 0 /\ (i < fn.i \/ fn.pc = "done") => fn.called[i] /\ fn.calcM[i] >= fn.M[i]

C26_TimeWork(i) ==
    /\ fn.total_time[i] = fn.exp_time[i]
    /\ fn.total_work[i] = fn.exp_work[i]

C26_Sums(i) ==
    /\ SampleDelta(fn, i).v = fn.exp_delta[i]
    /\ fn.psums_fine[i].v = fn.exp_fine[i]

C26_Loop == C26_Asked /\ C26_Skipped /\ C26_Stopped

C26_Original ==
    /\ C26_Loop
    /\ \A i \in C26_Levels :
         fn.called[i] /\ fn.pc # "raised" => C26_TimeWork(i) /\ C26_Sums(i)

\* What the drivers keep: the loop, the time and the work, and the power sums
\* of the levels whose two entries are two arrays.
C26_UnlessOneArray ==
    /\ C26_Loop
    /\ \A i \in C26_Levels :
         fn.called[i] /\ fn.pc # "raised" =>
             /\ C26_TimeWork(i)
             /\ ~fn.alias[i] => C26_Sums(i)
             /\ ~fn.sums => ~fn.alias[i]

\* A sampler that returns a sample or more per call: the driver returns or raises.
C26_Terminates == <>(fn.zero \/ fn.pc \in {"done", "raised"})

\* No such end without that condition.
C26_TerminatesAlways == <>(fn.pc \in {"done", "raised"})

(***************************************************************************)
(* C28: with reuse_samples, all_itr is last_itr, and a call of _genSamples *)
(* that reaches fn.SampleAll leaves at every level l with calcM[l] > 0 the *)
(* former M[l], power sums, tT[l] and tW[l] plus what the callback         *)
(* returned for l, once, and at every level with calcM[l] <= 0 what was    *)
(* there; no step lowers an M[l].                                          *)
(***************************************************************************)
C28_Called == itr.ret.op = "_genSamples" /\ itr.ret.invoked

C28_After == itr.objs[itr.ret.k]

C28_Delta(it, l) == IF it.has_delta THEN it.psums_delta[l] ELSE Fill(it.moments, Zero)

C28_Fine(it, l) == IF it.has_fine THEN it.psums_fine[l] ELSE Fill(it.moments, Zero)

C28_Sum(a, b) == [p \in 1..Len(a) |-> QAdd(a[p], b[p])]

C28_Added(before, after, l, batch) ==
    /\ after.M[l] = before.M[l] + batch.M
    /\ after.tT[l] = before.tT[l] + batch.tT
    /\ after.tW[l] = before.tW[l] + batch.tW
    /\ C28_Delta(after, l) = C28_Sum(C28_Delta(before, l), batch.psums_delta)
    /\ C28_Fine(after, l) = C28_Sum(C28_Fine(before, l), batch.psums_fine)

C28_Kept(before, after, l) ==
    /\ after.M[l] = before.M[l]
    /\ after.tT[l] = before.tT[l]
    /\ after.tW[l] = before.tW[l]
    /\ C28_Delta(after, l) = C28_Delta(before, l)
    /\ C28_Fine(after, l) = C28_Fine(before, l)

C28_Once ==
    C28_Called =>
        \A l \in 1..Len(itr.ret.calcM) :
            IF itr.ret.calcM[l] > 0
            THEN C28_Added(itr.ret.before, C28_After, l,
                           SampleLvl(l - 1, itr.ret.calcM[l], C28_After.moments))
            ELSE C28_Kept(itr.ret.before, C28_After, l)

C28_Step ==
    \A k \in 1..Len(itr.objs) : \A l \in 1..itr.objs[k].lvls_count :
        itr'.objs[k].M[l] >= itr.objs[k].M[l]

C28_AddedOnce == []C28_Once /\ [][C28_Step]_vars

\* A call whose callback reports -1 at a level that had 3 samples and 2 at a
\* level that had none.
C28_Witness ==
    /\ C28_Called
    /\ itr.ret.calcM = <<-1, 2>>
    /\ itr.ret.before.M = <<3, 0>>
    /\ C28_After.M = <<3, 2>>

\* The same through the passes of doRun, from one last iteration to the next.
C28_RunStep ==
    run.pc # "new" /\ run.p.reuse_samples /\ Len(run.iters) > 0 =>
        \A l \in 1..last_itr(run).lvls_count :
            last_itr(run').M[l] >= last_itr(run).M[l]

C28_RunMonotone == [][C28_RunStep]_vars

(***************************************************************************)
(* Specification SpecRunHist: the steps of SpecRun with a record of what   *)
(* happened before the pass at hand: `first` when no pass of the current   *)
(* tolerance has begun, `done` when the last pass called ItrDone and it    *)
(* returned true.                                                          *)
(***************************************************************************)
Hist(first, done) == [pc |-> "hist", first |-> first, done |-> done]

HistInit ==
    /\ run = [RunRecord(FALSE, TRUE, TRUE, FALSE, "None",
                        [ext |-> "prof", min_lvl |-> 3], <<Q(1, 4)>>, Q(1, 4))
                EXCEPT !.pc = "new"]
    /\ fn = Hist(FALSE, FALSE)
    /\ tm = Idle
    /\ itr = Idle

HistNew ==
    /\ run.pc = "new"
    /\ \E lsq \in BOOLEAN, reuse \in BOOLEAN, ct \in BOOLEAN, dyn \in BOOLEAN :
         \E idn \in ItrDoneChoices, e \in ExtChoices,
            tols \in RunTOLsChoices, tol \in RunTOLChoices :
           run' = RunRecord(lsq, reuse, ct, dyn, idn, e, tols, tol)
    /\ UNCHANGED <<tm, itr, fn>>

\* `for TOL in TOLs` takes the first tolerance.
HistStart ==
    /\ run.pc = "call"
    /\ run' = IF ~tolsDecreasing(run.p.TOLs) THEN Raise(run, "Tolerances must be decreasing")
              ELSE [run EXCEPT !.pc = "pass", !.ti = 1]
    /\ fn' = Hist(TRUE, FALSE)
    /\ UNCHANGED <<tm, itr>>

HistPassBegin ==
    /\ run.pc = "pass"
    /\ \E strict \in BOOLEAN : run' = passBegin(run, strict)
    /\ fn' = Hist(FALSE, FALSE)
    /\ UNCHANGED <<tm, itr>>

HistPassAlloc ==
    /\ run.pc = "alloc"
    /\ run' = passAlloc(run)
    /\ UNCHANGED <<tm, itr, fn>>

\* `add_new_iteration = self.fn.ItrDone()` is reached when samples were added
\* and ItrDone is a function.
HistPassEnd ==
    /\ run.pc = "endpass"
    /\ run' = passEnd(run)
    /\ fn' = Hist(FALSE, run.samples_added /\ run.p.ItrDone = "True")
    /\ UNCHANGED <<tm, itr>>

\* `for TOL in TOLs` takes the next tolerance, or doRun returns.
HistOuter ==
    /\ run.pc = "outer"
    /\ run' = outerStep(run)
    /\ fn' = Hist(TRUE, FALSE)
    /\ UNCHANGED <<tm, itr>>

HistNext ==
    \/ HistNew
    \/ HistStart
    \/ HistPassBegin
    \/ HistPassAlloc
    \/ HistPassEnd
    \/ HistOuter

SpecRunHist == HistInit /\ [][HistNext]_vars

(***************************************************************************)
(* C29: a step of doRun leaves the list of iterations as long as it was or *)
(* one longer, with the iterations it held unchanged at their positions;   *)
(* it is one longer only after a pass began on an empty list, as the first *)
(* pass of a tolerance after the first, or after a pass in which ItrDone   *)
(* returned true; and the TOL of an iteration is never above the TOL of    *)
(* the iteration before it.                                                *)
(***************************************************************************)
C29_Grows == Len(run'.iters) = Len(run.iters) + 1

C29_Kept ==
    /\ Len(run'.iters) >= Len(run.iters)
    /\ Len(run'.iters) <= Len(run.iters) + 1
    /\ \A i \in 1..(Len(run.iters) - 1) : run'.iters[i] = run.iters[i]
    /\ C29_Grows /\ Len(run.iters) > 0 =>
         run'.iters[Len(run.iters)] = run.iters[Len(run.iters)]

C29_When ==
    C29_Grows =>
        /\ run.pc = "pass"
        /\ \/ Len(run.iters) = 0
           \/ fn.first /\ run.ti > 1
           \/ fn.done

C29_TOLs ==
    \A i \in 1..(Len(run.iters) - 1) : QLe(run.iters[i + 1].TOL, run.iters[i].TOL)

C29_Iterations == []C29_TOLs /\ [][C29_Kept /\ C29_When]_vars

\* The third iteration of a run: the second came in the first tolerance, after
\* ItrDone returned true, and the third with the second tolerance.
C29_Witness ==
    /\ Len(run.iters) = 3
    /\ run.ti = 2
    /\ run.p.ItrDone = "True"
    /\ run.pc = "alloc"

(***************************************************************************)
(* Specification SpecItrOwn: copy(), next_itr() and the operations that    *)
(* write into the arrays of a state, with the arrays as objects:           *)
(* `shared` holds <<a, b, f>> when attribute f of the states a and b is    *)
(* one array.  A write in place (x[i] = v, x += v, x.resize) shows in      *)
(* every state that holds the array; an assignment to the attribute gives  *)
(* the state an array of its own.                                          *)
(***************************************************************************)
\* copy() with ret.M = self.M.
copyAssigned_SameM ==
    [psums_delta |-> "copy", psums_fine |-> "copy", tT |-> "copy", tW |-> "copy",
     M |-> "same", weights |-> "copy", Vl_estimate |-> "copy", active_lvls |-> "copy"]

\* copy(): each array attribute of ret is assigned self.<attribute>.copy(), the
\* weights copy.copy(self.weights), which copies an array.
copyAssigned ==
    [psums_delta |-> "copy", psums_fine |-> "copy", tT |-> "copy", tW |-> "copy",
     M |-> "copy", weights |-> "copy", Vl_estimate |-> "copy", active_lvls |-> "copy"]

ArrayFields == DOMAIN copyAssigned

Shares(sh, a, b, f) == <<a, b, f>> \in sh \/ <<b, a, f>> \in sh

\* The arrays of the state n made by copy() from the state k.
ownCopied(sh, k, n) ==
    sh \cup {<<j, n, f>> : j \in {k} \cup {i \in 1..(n - 1) : \E g \in ArrayFields : Shares(sh, i, k, g)},
                           f \in {g \in ArrayFields : copyAssigned[g] = "same"}}

ownSeen(sh, j, k, f, inplace) == f \in inplace /\ Shares(sh, j, k, f)

\* The state j after an operation on the state k left k as `new`, having
\* written in place into the arrays `inplace` of k.
ownWritten(o, j, k, new, inplace, sh) ==
    IF j = k THEN new
    ELSE [o EXCEPT
            !.psums_delta = IF ownSeen(sh, j, k, "psums_delta", inplace) THEN new.psums_delta ELSE @,
            !.psums_fine = IF ownSeen(sh, j, k, "psums_fine", inplace) THEN new.psums_fine ELSE @,
            !.tT = IF ownSeen(sh, j, k, "tT", inplace) THEN new.tT ELSE @,
            !.tW = IF ownSeen(sh, j, k, "tW", inplace) THEN new.tW ELSE @,
            !.M = IF ownSeen(sh, j, k, "M", inplace) THEN new.M ELSE @,
            !.weights = IF ownSeen(sh, j, k, "weights", inplace) THEN new.weights ELSE @,
            !.Vl_estimate = IF ownSeen(sh, j, k, "Vl_estimate", inplace) THEN new.Vl_estimate ELSE @,
            !.active_lvls = IF ownSeen(sh, j, k, "active_lvls", inplace) THEN new.active_lvls ELSE @]

\* An operation on the state k: `inplace` are the attributes written in
\* place, `assigned` those given a new array.
ownApply(op, k, new, inplace, assigned) ==
    [itr EXCEPT
        !.objs = [j \in 1..Len(itr.objs) |->
                     ownWritten(itr.objs[j], j, k, new, inplace, itr.shared)],
        !.shared = {t \in @ : ~(t[3] \in assigned /\ (t[1] = k \/ t[2] = k))},
        !.ret = [op |-> op, k |-> k]]

OwnInit ==
    /\ \E ml2r \in BOOLEAN :
         itr = [sets |-> <<0>>, objs |-> <<NewItrData(1, 0, Moments)>>, adds |-> 0,
                ml2r |-> ml2r, ret |-> NoRet, shared |-> {}]
    /\ tm = Idle
    /\ run = Idle
    /\ fn = Idle

\* copy(copy_lvls=True) or next_itr() of a state.
OwnCopy ==
    /\ Len(itr.objs) < MaxObjs
    /\ \E k \in 1..Len(itr.objs), copy_lvls \in BOOLEAN :
         LET it == itr.objs[k]
         IN  itr' = IF copy_lvls
                    THEN [itr EXCEPT
                            !.sets = Append(@, itr.sets[it.lvls]),
                            !.objs = Append(@, copy(it, Len(itr.sets) + 1, itr.sets[it.lvls])),
                            !.shared = ownCopied(@, k, Len(itr.objs) + 1),
                            !.ret = [op |-> "copy", k |-> k]]
                    ELSE [itr EXCEPT
                            !.objs = Append(@, copy(it, it.lvls, itr.sets[it.lvls])),
                            !.shared = ownCopied(@, k, Len(itr.objs) + 1),
                            !.ret = [op |-> "next_itr", k |-> k]]
    /\ UNCHANGED <<tm, run, fn>>

\* addSamples: M, tT and tW are written in place, the power sums too unless
\* they are None, and then they are new arrays.
OwnAddSamples ==
    /\ itr.adds < MaxBatches
    /\ \E k \in 1..Len(itr.objs) :
         \E l \in 1..itr.objs[k].lvls_count, b \in BatchChoices :
             itr' = [ownApply("addSamples", k, addSamples(itr.objs[k], l, b),
                              {"M", "tT", "tW"}
                                 \cup (IF itr.objs[k].has_delta THEN {"psums_delta"} ELSE {})
                                 \cup (IF itr.objs[k].has_fine THEN {"psums_fine"} ELSE {}),
                              (IF itr.objs[k].has_delta THEN {} ELSE {"psums_delta"})
                                 \cup (IF itr.objs[k].has_fine THEN {} ELSE {"psums_fine"}))
                       EXCEPT !.adds = @ + 1]
    /\ UNCHANGED <<tm, run, fn>>

\* zero_samples(): x[:] = 0 on M, tT, tW and the power sums.
OwnZeroSamples ==
    /\ \E k \in 1..Len(itr.objs) :
         /\ SumInts(itr.objs[k].M) > 0
         /\ itr' = ownApply("zero_samples", k, zero_samples(itr.objs[k]),
                            {"M", "tT", "tW", "psums_delta", "psums_fine"}, {})
    /\ UNCHANGED <<tm, run, fn>>

\* _update_active_lvls with last_itr = the state: active_lvls is assigned a
\* new array, and so is weights with ml2r.
OwnUpdateActive ==
    /\ \E k \in 1..Len(itr.objs) :
         /\ itr.objs[k].lvls_count = itr.sets[itr.objs[k].lvls]
         /\ \E s \in 0..(itr.objs[k].lvls_count - 1) :
              itr' = ownApply("_update_active_lvls", k,
                              update_active_lvls(itr.objs[k], s, itr.ml2r), {},
                              {"active_lvls"} \cup (IF itr.ml2r THEN {"weights"} ELSE {}))
    /\ UNCHANGED <<tm, run, fn>>

\* lvls_add_from_list([[n]]) through a state, then its _levels_added(): the
\* level set grows and the arrays of the state are resized in place.
OwnAddLevel ==
    /\ \E k \in 1..Len(itr.objs) :
         /\ itr.sets[itr.objs[k].lvls] < MaxItrLvls
         /\ itr' = [ownApply("lvls_add", k,
                             levels_added(itr.objs[k], itr.sets[itr.objs[k].lvls] + 1),
                             ArrayFields, {})
                      EXCEPT !.sets[itr.objs[k].lvls] = @ + 1]
    /\ UNCHANGED <<tm, run, fn>>

OwnNext ==
    \/ OwnCopy
    \/ OwnAddSamples
    \/ OwnZeroSamples
    \/ OwnUpdateActive
    \/ OwnAddLevel

SpecItrOwn == OwnInit /\ [][OwnNext]_vars

(***************************************************************************)
(* C30: the state made by copy() or next_itr() shares no array with its    *)
(* source: addSamples, zero_samples and _update_active_lvls on one state   *)
(* leave every other state as it was (M, power sums, tT, tW, active_lvls,  *)
(* weights and bias among its attributes), and making the copy changes no  *)
(* state.  next_itr() gives the new state the level set of the source, and *)
(* levels added through one of them leave the other's lvls_count and       *)
(* arrays as they were, the set being one longer.                          *)
(***************************************************************************)
C30_Others ==
    \A j \in 1..Len(itr.objs) :
        itr'.ret.op \in {"copy", "next_itr"} \/ j # itr'.ret.k =>
            itr'.objs[j] = itr.objs[j]

C30_LevelSet ==
    /\ itr'.ret.op = "next_itr" =>
         itr'.objs[Len(itr'.objs)].lvls = itr.objs[itr'.ret.k].lvls
    /\ itr'.ret.op = "lvls_add" =>
         \A j \in 1..Len(itr.objs) :
            itr.objs[j].lvls = itr.objs[itr'.ret.k].lvls =>
                itr'.sets[itr.objs[j].lvls] = itr.sets[itr.objs[j].lvls] + 1

C30_Owned == [][C30_Others /\ C30_LevelSet]_vars

\* A state with two samples at its only level and the state next_itr() made
\* of it, which then got two more samples and, through it, a second level.
C30_Witness ==
    /\ Len(itr.objs) = 2
    /\ itr.objs[2].lvls = itr.objs[1].lvls
    /\ itr.sets[itr.objs[1].lvls] = 2
    /\ itr.objs[1].lvls_count = 1
    /\ itr.objs[1].M = <<2>>
    /\ itr.objs[2].lvls_count = 2
    /\ itr.objs[2].M = <<4, 0>>

====
